---- MODULE Spec2Model ----
(***************************************************************************)
(* Authenticating reverse proxy (password + TOTP) in front of an upstream  *)
(* HTTP/WebSocket service: the MFA manager (secret store, pending setups), *)
(* the auth router's session state machine and the admission gate of the   *)
(* express application.                                                    *)
(*                                                                         *)
(* Strings whose characters matter (request paths, TOTP codes) are         *)
(* sequences of one-character strings.  Time is counted in TOTP steps of   *)
(* 30 seconds.  A TOTP code is an idealised (collision-free) function of   *)
(* the secret and the step.                                                *)
(***************************************************************************)
EXTENDS Integers, Sequences, FiniteSets, TLC

\* ------------------------------------------------------------------ bounds
MaxSetups == 2      \* setup ids (uuidv4 values) handed out in one run
MaxTicks == 1       \* single 30-second steps the clock advances
MaxJumps == 1       \* 30-minute jumps the clock advances
MaxInflight == 1    \* handlers suspended at an await at the same time

\* ------------------------------------------------------- program constants
TotpWindow == 2     \* window: 2
TtlSteps == 60      \* 30 * 60 * 1000 ms, in steps of 30 s
TokenLength == 6    \* cleanToken.length !== 6

None == "undefined"

\* --------------------------------------------------------- string helpers
StartsWith(s, prefix) ==
    /\ Len(prefix) <= Len(s)
    /\ SubSeq(s, 1, Len(prefix)) = prefix

S_slash == <<"/">>
S_auth == <<"/", "a", "u", "t", "h">>
S_authSlash == <<"/", "a", "u", "t", "h", "/">>
S_health == <<"/", "h", "e", "a", "l", "t", "h">>
S_proxyStatus == <<"/", "p", "r", "o", "x", "y", "-", "s", "t", "a", "t", "u", "s">>
S_login == <<"/", "l", "o", "g", "i", "n">>
S_mfaSetup == <<"/", "m", "f", "a", "-", "s", "e", "t", "u", "p">>
S_mfaVerify == <<"/", "m", "f", "a", "-", "v", "e", "r", "i", "f", "y">>
S_mfaDebug == <<"/", "m", "f", "a", "-", "d", "e", "b", "u", "g">>
S_mfaCleanup == <<"/", "m", "f", "a", "-", "c", "l", "e", "a", "n", "u", "p">>
S_mfaReset == <<"/", "m", "f", "a", "-", "r", "e", "s", "e", "t">>
S_logout == <<"/", "l", "o", "g", "o", "u", "t">>

\* ------------------------------------------------ public path configuration
defaultPublicPaths ==
    << <<"/", "a", "p", "i", "/", "a", "u", "t", "h">>,
       <<"/", "l", "o", "g", "i", "n">>,
       <<"/", "r", "e", "g", "i", "s", "t", "e", "r">>,
       <<"/", "p", "u", "b", "l", "i", "c">>,
       <<"/", "a", "s", "s", "e", "t", "s">>,
       <<"/", "s", "t", "a", "t", "i", "c">>,
       <<"/", "f", "a", "v", "i", "c", "o", "n", ".", "i", "c", "o">>,
       <<"/", "r", "o", "b", "o", "t", "s", ".", "t", "x", "t">> >>

\* process.env.PUBLIC_PATHS: unset, or a text given by what JSON.parse makes
\* of it: kind is "empty" (the empty string), "unparseable" (JSON.parse
\* throws), "array" (json holds its items) or the kind of the non-array value
\* it parses to ("object", "string", "number", "null").
PathsUnset == [set |-> FALSE, kind |-> "unset", json |-> << >>]
PathsArray(items) == [set |-> TRUE, kind |-> "array", json |-> items]
PathsText(kind) == [set |-> TRUE, kind |-> kind, json |-> << >>]

\* PUBLIC_PATHS of the deployments explored: unset, or a JSON list of paths.
PublicPathsEnv ==
    { PathsUnset, PathsArray(<< <<"/", "p", "u", "b">> >>) }

\* A JavaScript value held by publicPaths: an array (its items) or not.
PathList(items) == [isArray |-> TRUE, items |-> items]
NotAnArray == [isArray |-> FALSE, items |-> << >>]

\* getPublicPaths: whatever JSON.parse returns is returned, the defaults when
\* the variable is unset or empty or JSON.parse throws.
getPublicPaths(envPaths) ==
    IF envPaths.set /\ envPaths.kind # "empty"
    THEN IF envPaths.kind = "unparseable" THEN PathList(defaultPublicPaths)
         ELSE IF envPaths.kind = "array" THEN PathList(envPaths.json)
         ELSE NotAnArray
    ELSE PathList(defaultPublicPaths)

\* isPublicPath with startsWith(publicPath) in place of startsWith(publicPath + '/').
isPublicPathMissingSlash(publicPaths, path) ==
    \E i \in DOMAIN publicPaths.items :
        path = publicPaths.items[i] \/ StartsWith(path, publicPaths.items[i])

\* publicPaths.some(...) on a value that is no array: TypeError.
isPublicPathThrows(publicPaths) == ~publicPaths.isArray

isPublicPath(publicPaths, path) ==
    \E i \in DOMAIN publicPaths.items :
        path = publicPaths.items[i] \/ StartsWith(path, publicPaths.items[i] \o S_slash)

\* ------------------------------------------------------------ the requests
Methods == {"GET", "POST"}

\* Accept header: the media types it lists, << >> when the header is absent.
AcceptValues == { << >>, <<"text/html">>, <<"text/html", "application/json">> }

UpgradeValues == {None, "websocket"}

acceptsJson(accept) ==
    /\ accept # << >>
    /\ \E i \in DOMAIN accept : accept[i] = "application/json"

\* ---------------------------------------------------- routing of a request
\* An express route pattern matches the path with or without a trailing slash.
RouteMatches(path, pattern) ==
    path = pattern \/ path = pattern \o S_slash

\* app.use('/auth', ...): the mount point itself or anything below it.
MountedUnderAuth(path) ==
    path = S_auth \/ StartsWith(path, S_authSlash)

\* The path the auth router sees: the request path without the mount point.
RouterPath(path) ==
    IF path = S_auth THEN S_slash ELSE SubSeq(path, Len(S_auth) + 1, Len(path))

authRouterRoute(method, path) ==
    LET sub == RouterPath(path) IN
    CASE method = "GET" /\ RouteMatches(sub, S_login) -> "getLogin"
      [] method = "POST" /\ RouteMatches(sub, S_login) -> "postLogin"
      [] method = "GET" /\ RouteMatches(sub, S_mfaSetup) -> "getMfaSetup"
      [] method = "POST" /\ RouteMatches(sub, S_mfaSetup) -> "postMfaSetup"
      [] method = "GET" /\ RouteMatches(sub, S_mfaVerify) -> "getMfaVerify"
      [] method = "POST" /\ RouteMatches(sub, S_mfaVerify) -> "postMfaVerify"
      [] method = "GET" /\ RouteMatches(sub, S_mfaDebug) -> "getMfaDebug"
      [] method = "POST" /\ RouteMatches(sub, S_mfaCleanup) -> "postMfaCleanup"
      [] method = "POST" /\ RouteMatches(sub, S_mfaReset) -> "postMfaReset"
      [] method = "POST" /\ RouteMatches(sub, S_logout) -> "postLogout"
      [] OTHER -> "next"

\* The middleware chain up to the authentication gate, in registration order:
\* the handler that answers the request, or "next" when none of them does.
Dispatch(method, path) ==
    IF method = "GET" /\ RouteMatches(path, S_health) THEN "health"
    ELSE IF method = "GET" /\ RouteMatches(path, S_proxyStatus) THEN "proxyStatus"
    ELSE IF MountedUnderAuth(path) THEN authRouterRoute(method, path)
    ELSE "next"

\* ------------------------------------------------------ the admission gate
\* The first gate without its exemption of the paths that start with '/auth'.
authGateNoAuthExemption(authenticated, path) ==
    ~authenticated

\* First gate: TRUE when it answers with the redirect to /auth/login.
authGate(authenticated, path) ==
    ~authenticated /\ ~StartsWith(path, S_auth)

\* Second gate: "next" hands the request to proxyMiddleware, "throws" is the
\* TypeError of isPublicPath.
smartProxyRoute(authenticated, path, accept, upgrade, publicPaths) ==
    IF StartsWith(path, S_authSlash) \/ path = S_health \/ path = S_proxyStatus
    THEN "next"
    ELSE IF isPublicPathThrows(publicPaths) THEN "throws"
    ELSE IF isPublicPath(publicPaths, path) THEN "next"
    ELSE IF ~authenticated
         THEN IF acceptsJson(accept) THEN "401json"
              ELSE IF upgrade = "websocket" THEN "401"
              ELSE "redirect:/auth/login"
         ELSE "next"

\* pathFilter with '/auth' in place of '/auth/'.
pathFilterAuthPrefix(pathname) ==
    IF StartsWith(pathname, S_auth) THEN FALSE
    ELSE IF pathname = S_health \/ pathname = S_proxyStatus THEN FALSE
    ELSE TRUE

\* A pathFilter that accepts every path.
pathFilterAll(pathname) == TRUE

pathFilter(pathname) ==
    IF StartsWith(pathname, S_authSlash) THEN FALSE
    ELSE IF pathname = S_health \/ pathname = S_proxyStatus THEN FALSE
    ELSE TRUE

\* The answer to a request that no local route handled: who answered (by),
\* what (outcome), whether proxyMiddleware was invoked (reachedProxy) and
\* whether it relayed the request to the upstream target (relayed).
admission(authenticated, path, accept, upgrade, publicPaths) ==
    IF authGate(authenticated, path)
    THEN [by |-> "authGate", outcome |-> "redirect:/auth/login",
          reachedProxy |-> FALSE, relayed |-> FALSE]
    ELSE LET d == smartProxyRoute(authenticated, path, accept, upgrade, publicPaths) IN
         IF d = "throws"
         THEN [by |-> "express", outcome |-> "500",
               reachedProxy |-> FALSE, relayed |-> FALSE]
         ELSE IF d # "next"
         THEN [by |-> "smartProxyRoute", outcome |-> d,
               reachedProxy |-> FALSE, relayed |-> FALSE]
         ELSE IF pathFilter(path)
              THEN [by |-> "proxyMiddleware", outcome |-> "forward",
                    reachedProxy |-> TRUE, relayed |-> TRUE]
              ELSE [by |-> "express", outcome |-> "404",
                    reachedProxy |-> TRUE, relayed |-> FALSE]

\* ------------------------------------------------------ forwarding errors
\* err.code of a failed forwarding: a code of the system, or none.
ErrorCodes == {"ECONNRESET", "ECONNREFUSED", "ETIMEDOUT", "ENOTFOUND", "EPIPE", None}

NoStatus == "none"

\* onError that answers every failure with 502.
onErrorAlways502(code, hasRes, headersSent) ==
    IF hasRes /\ ~headersSent THEN "502" ELSE NoStatus

\* onError(err, req, res): the status it answers with, NoStatus when there is
\* no response object or the response has already begun.
onError(code, hasRes, headersSent) ==
    IF hasRes /\ ~headersSent
    THEN CASE code = "ECONNRESET" -> "502"
           [] code = "ECONNREFUSED" -> "503"
           [] code = "ETIMEDOUT" -> "504"
           [] OTHER -> "502"
    ELSE NoStatus

\* ------------------------------------------------------------- TOTP codes
Digits == <<"0", "1", "2", "3", "4", "5", "6", "7", "8", "9">>

IsDigit(c) == \E i \in DOMAIN Digits : Digits[i] = c

\* A base32 secret is a number: 1 and 2 are the secrets configured before the
\* run, generateSecret draws a new one with every setup id.
NoSecret == 0
\* speakeasy.totp({secret, step: 30, time}): the 6-digit code of a secret at
\* a time step, zero-padded; distinct (secret, step) pairs give distinct codes.
totp(secret, step) ==
    LET n == secret * 1000 + step IN
    [i \in 1..TokenLength |-> Digits[((n \div (10 ^ (TokenLength - i))) % 10) + 1]]

\* A verification that looks at the current and the earlier steps only.
totpVerifyPastOnly(secret, token, window, step) ==
    \E d \in (0 - window)..0 : totp(secret, step + d) = token

\* speakeasy.totp.verify({secret, token, window, step: 30, time})
totpVerify(secret, token, window, step) ==
    \E d \in (0 - window)..window : totp(secret, step + d) = token

\* A submitted token: a string (its characters) or not a string at all (the
\* form field is missing, or holds a number or an object).
TokenString(chars) == [isString |-> TRUE, chars |-> chars]
TokenUndefined == [isString |-> FALSE, chars |-> << >>]

\* A cleaning that removes nothing.
cleanTokenKeepsAll(chars) == chars

\* token.replace(/\D/g, '')
cleanToken(chars) == SelectSeq(chars, IsDigit)

\* ----------------------------------------------------------- MFA manager
Users == {"admin", "bob"}
validUsername == "admin"

NoSetupId == 0
SetupIds == 1..MaxSetups

NoSecrets == [u \in Users |-> NoSecret]

\* Map.get on userSecrets
getSecret(userSecrets, username) ==
    IF username \in DOMAIN userSecrets THEN userSecrets[username] ELSE NoSecret

hasMFAEnabled(userSecrets, username) ==
    getSecret(userSecrets, username) # NoSecret

\* getMFAStatus that never asks for a setup.
getMFAStatusNeverSetup(userSecrets, username) ==
    [enabled |-> hasMFAEnabled(userSecrets, username), setupRequired |-> FALSE]

getMFAStatus(userSecrets, username) ==
    [enabled |-> hasMFAEnabled(userSecrets, username),
     setupRequired |-> ~hasMFAEnabled(userSecrets, username)]

\* loadUserSecrets: the file first, then MFA_SECRETS over it.
loadUserSecrets(file, env) ==
    [u \in (DOMAIN file) \cup (DOMAIN env) |->
        IF u \in DOMAIN env /\ env[u] # NoSecret THEN env[u]
        ELSE IF u \in DOMAIN file THEN file[u]
        ELSE NoSecret]

\* exportSecrets: the JSON text of the object that secrets[username] = secret
\* builds from the store, as the mapping JSON.parse reads back from it. The
\* assignment of a string to the key "__proto__" of a plain object sets no
\* property.
ProtoKey == "__proto__"

exportSecrets(userSecrets) ==
    [u \in {v \in DOMAIN userSecrets : userSecrets[v] # NoSecret /\ v # ProtoKey}
        |-> userSecrets[u]]

\* saveToFile: the file after the write, which may fail (the error is logged
\* and swallowed, the file keeps its old content).
saveToFile(userSecrets, file, diskOk) ==
    IF diskOk THEN userSecrets ELSE file

\* cleanupUserSetups that deletes the setups of every user.
cleanupUserSetupsOfAll(pendingSetups, username) == << >>

\* cleanupUserSetups that deletes nothing.
cleanupUserSetupsKeepsAll(pendingSetups, username) == pendingSetups

cleanupUserSetups(pendingSetups, username) ==
    [id \in {i \in DOMAIN pendingSetups : pendingSetups[i].username # username}
        |-> pendingSetups[id]]

\* generateSecret that leaves the user's old setups in the registry.
generateSecretKeepsOld(pendingSetups, username, setupId, secret, t) ==
    [id \in (DOMAIN pendingSetups) \cup {setupId} |->
        IF id = setupId
        THEN [username |-> username, secret |-> secret, timestamp |-> t]
        ELSE pendingSetups[id]]

\* The registry after generateSecret(username) drew setupId and secret at time t.
generateSecret(pendingSetups, username, setupId, secret, t) ==
    LET cleaned == cleanupUserSetups(pendingSetups, username) IN
    [id \in (DOMAIN cleaned) \cup {setupId} |->
        IF id = setupId
        THEN [username |-> username, secret |-> secret, timestamp |-> t]
        ELSE cleaned[id]]

\* verifyToken without the speakeasy check: any six digits pass.
verifyTokenAnySixDigits(userSecrets, username, token, t) ==
    LET secret == getSecret(userSecrets, username) IN
    IF secret = NoSecret THEN "false"
    ELSE IF ~token.isString THEN "throws"
    ELSE IF Len(cleanToken(token.chars)) # TokenLength THEN "false"
    ELSE "true"

\* verifyToken that accepts the code of the current step only.
verifyTokenCurrentStepOnly(userSecrets, username, token, t) ==
    LET secret == getSecret(userSecrets, username) IN
    IF secret = NoSecret THEN "false"
    ELSE IF ~token.isString THEN "throws"
    ELSE IF Len(cleanToken(token.chars)) # TokenLength THEN "false"
    ELSE IF totpVerify(secret, cleanToken(token.chars), 0, t) THEN "true"
    ELSE "false"

\* verifyToken(username, token) at time step t: "true", "false" or "throws".
verifyToken(userSecrets, username, token, t) ==
    LET secret == getSecret(userSecrets, username) IN
    IF secret = NoSecret THEN "false"
    ELSE IF ~token.isString THEN "throws"
    ELSE IF Len(cleanToken(token.chars)) # TokenLength THEN "false"
    ELSE IF totpVerify(secret, cleanToken(token.chars), TotpWindow, t) THEN "true"
    ELSE "false"

\* completeMFASetup that reports success without storing the secret.
completeMFASetupNoCommit(pendingSetups, userSecrets, setupId, token, t) ==
    LET unchanged(r) == [result |-> r, pendingSetups |-> pendingSetups,
                         userSecrets |-> userSecrets]
    IN
    IF setupId \notin DOMAIN pendingSetups THEN unchanged("Invalid or expired setup")
    ELSE LET setup == pendingSetups[setupId] IN
         IF ~token.isString THEN unchanged("throws")
         ELSE IF Len(cleanToken(token.chars)) # TokenLength
              THEN unchanged("Token must be 6 digits")
         ELSE IF ~totpVerify(setup.secret, cleanToken(token.chars), TotpWindow, t)
              THEN unchanged("Invalid token")
         ELSE [result |-> "success",
               pendingSetups |-> [id \in (DOMAIN pendingSetups) \ {setupId}
                                     |-> pendingSetups[id]],
               userSecrets |-> userSecrets]

\* completeMFASetup that stores the secret and leaves the setup in the registry.
completeMFASetupKeepsSetup(pendingSetups, userSecrets, setupId, token, t) ==
    LET unchanged(r) == [result |-> r, pendingSetups |-> pendingSetups,
                         userSecrets |-> userSecrets]
    IN
    IF setupId \notin DOMAIN pendingSetups THEN unchanged("Invalid or expired setup")
    ELSE LET setup == pendingSetups[setupId] IN
         IF ~token.isString THEN unchanged("throws")
         ELSE IF Len(cleanToken(token.chars)) # TokenLength
              THEN unchanged("Token must be 6 digits")
         ELSE IF ~totpVerify(setup.secret, cleanToken(token.chars), TotpWindow, t)
              THEN unchanged("Invalid token")
         ELSE [result |-> "success",
               pendingSetups |-> pendingSetups,
               userSecrets |-> [userSecrets EXCEPT ![setup.username] = setup.secret]]

\* completeMFASetup(setupId, token) at time step t: the result and the
\* registry and secret store it leaves (saveToFile is applied by the caller).
completeMFASetup(pendingSetups, userSecrets, setupId, token, t) ==
    LET unchanged(r) == [result |-> r, pendingSetups |-> pendingSetups,
                         userSecrets |-> userSecrets]
    IN
    IF setupId \notin DOMAIN pendingSetups THEN unchanged("Invalid or expired setup")
    ELSE LET setup == pendingSetups[setupId] IN
         IF ~token.isString THEN unchanged("throws")
         ELSE IF Len(cleanToken(token.chars)) # TokenLength
              THEN unchanged("Token must be 6 digits")
         ELSE IF ~totpVerify(setup.secret, cleanToken(token.chars), TotpWindow, t)
              THEN unchanged("Invalid token")
         ELSE [result |-> "success",
               pendingSetups |-> [id \in (DOMAIN pendingSetups) \ {setupId}
                                     |-> pendingSetups[id]],
               userSecrets |-> [userSecrets EXCEPT ![setup.username] = setup.secret]]

\* resetMFA(username): the secret store after the delete.
resetMFA(userSecrets, username) ==
    [u \in DOMAIN userSecrets |-> IF u = username THEN NoSecret ELSE userSecrets[u]]

\* ------------------------------------------------------------ credentials
\* process.env.USER_CREDENTIALS: unset, or a string (its characters).
EnvUnset == [set |-> FALSE, chars |-> << >>]
EnvString(chars) == [set |-> TRUE, chars |-> chars]

\* credentials.split(':'): the parts between the colons.
RECURSIVE splitColon(_)
splitColon(chars) ==
    IF \A i \in DOMAIN chars : chars[i] # ":" THEN <<chars>>
    ELSE LET i == CHOOSE k \in DOMAIN chars :
                      chars[k] = ":" /\ \A j \in 1..(k - 1) : chars[j] # ":"
         IN <<SubSeq(chars, 1, i - 1)>> \o splitColon(SubSeq(chars, i + 1, Len(chars)))

\* parseUserCredentials that never exits.
parseUserCredentialsNeverExits(credentials) ==
    LET parts == splitColon(credentials.chars) IN
    [exit |-> FALSE,
     username |-> parts[1],
     passwordHash |-> IF Len(parts) >= 2 THEN parts[2] ELSE << >>]

\* parseUserCredentials: exit |-> TRUE stands for process.exit(1).
parseUserCredentials(credentials) ==
    IF ~credentials.set \/ credentials.chars = << >>
    THEN [exit |-> TRUE, username |-> << >>, passwordHash |-> << >>]
    ELSE LET parts == splitColon(credentials.chars) IN
         IF parts[1] = << >> \/ Len(parts) < 2
         THEN [exit |-> TRUE, username |-> << >>, passwordHash |-> << >>]
         ELSE IF parts[2] = << >>
         THEN [exit |-> TRUE, username |-> << >>, passwordHash |-> << >>]
         ELSE [exit |-> FALSE, username |-> parts[1], passwordHash |-> parts[2]]

\* The credentials of the configured user, and the process serving with them.
C_admin == <<"a", "d", "m", "i", "n">>
C_hash == <<"$", "2", "a", "$">>
Serving == [status |-> "serving", userCredentials |-> EnvString(C_admin \o <<":">> \o C_hash)]

\* A field of a log record: the record's message, the field's name and the
\* value written, a token of a request or a secret.
LogToken(message, field, token) ==
    [message |-> message, field |-> field, token |-> token, secret |-> NoSecret]

LogSecret(message, field, secret) ==
    [message |-> message, field |-> field, token |-> TokenUndefined, secret |-> secret]

\* generateSecret: logger.info('MFA secret generated', {..., otpauthUrl}); the
\* otpauth URL holds the base32 secret.
generateSecretLog(secret) ==
    { LogSecret("MFA secret generated", "otpauthUrl", secret) }

\* verifyToken: logger.info('MFA token verification', {providedToken,
\* expectedToken, ...}), reached when the user has a secret and the token is a
\* string of six digits after cleaning.
verifyTokenLog(userSecrets, username, token, t) ==
    LET secret == getSecret(userSecrets, username) IN
    IF secret = NoSecret \/ ~token.isString THEN {}
    ELSE IF Len(cleanToken(token.chars)) # TokenLength THEN {}
    ELSE { LogToken("MFA token verification", "providedToken",
                    TokenString(cleanToken(token.chars))),
           LogToken("MFA token verification", "expectedToken",
                    TokenString(totp(secret, t))) }

\* completeMFASetup: logger.info('Completing MFA setup', {tokenProvided}) and,
\* for a six-digit code that does not verify, logger.warn('Invalid MFA token
\* during setup', {providedToken, expectedToken, ...}).
completeMFASetupLog(pendingSetups, setupId, token, t) ==
    { LogToken("Completing MFA setup", "tokenProvided", token) }
    \cup
    ( IF setupId \notin DOMAIN pendingSetups \/ ~token.isString THEN {}
      ELSE IF Len(cleanToken(token.chars)) # TokenLength THEN {}
      ELSE IF totpVerify(pendingSetups[setupId].secret, cleanToken(token.chars), TotpWindow, t)
      THEN {}
      ELSE { LogToken("Invalid MFA token during setup", "providedToken",
                      TokenString(cleanToken(token.chars))),
             LogToken("Invalid MFA token during setup", "expectedToken",
                      TokenString(totp(pendingSetups[setupId].secret, t))) } )

\* ------------------------------------------------------------------ state
Sessions == {"s1", "s2"}

VARIABLES
    sess,            \* session store: the session of each client cookie
    pendingSetups,   \* MFAManager.pendingSetups: setupId -> {username, secret, timestamp}
    userSecrets,     \* MFAManager.userSecrets: username -> secret
    secretsFile,     \* content of /app/data/mfa-secrets.json
    timers,          \* pending setTimeout callbacks of generateSecret
    nextId,          \* the next uuidv4 value
    now,             \* server clock, in steps of 30 s
    inflight,        \* handlers suspended at an await
    last,            \* the last response sent
    nodeEnv,         \* process.env.NODE_ENV
    publicPaths,     \* the value getPublicPaths returned when the server started
    publicPathsEnv,  \* process.env.PUBLIC_PATHS
    mfaSecretsEnv,   \* process.env.MFA_SECRETS, parsed: username -> secret
    server,          \* the process: its status and process.env.USER_CREDENTIALS
    logged,          \* the token, code and secret fields of the log records that
                     \* the last step wrote
    mfaPassed        \* history: the sessions that presented a valid second factor

vars == <<sess, pendingSetups, userSecrets, secretsFile, timers, nextId, now,
          inflight, last, nodeEnv, publicPaths, publicPathsEnv, mfaSecretsEnv,
          server, logged, mfaPassed>>

\* A session nobody has written to: every field undefined.
FreshSession ==
    [passwordVerified |-> FALSE, authenticated |-> FALSE, username |-> None,
     mfaSetupId |-> NoSetupId]

NoRequest ==
    [op |-> "none", s |-> None, method |-> None, path |-> << >>,
     orig |-> FreshSession, snap |-> FreshSession,
     username |-> None, password |-> None, setupId |-> NoSetupId,
     qrSecret |-> NoSecret]

NoResponse ==
    [op |-> "none", s |-> None, method |-> None, path |-> << >>, accept |-> << >>,
     upgrade |-> None, authenticated |-> FALSE, by |-> "none", outcome |-> "none",
     reachedProxy |-> FALSE, relayed |-> FALSE, token |-> TokenUndefined,
     code |-> None, qrSecret |-> NoSecret, manualSecret |-> NoSecret]

\* The response of a route of the auth router; token is the req.body.token the
\* request carried (TokenUndefined when it carried none).
RouterResponse(op, s, method, path, authenticated, outcome) ==
    [op |-> op, s |-> s, method |-> method, path |-> path, accept |-> << >>,
     upgrade |-> None, authenticated |-> authenticated, by |-> "authRouter",
     outcome |-> outcome, reachedProxy |-> FALSE, relayed |-> FALSE,
     token |-> TokenUndefined, code |-> None, qrSecret |-> NoSecret,
     manualSecret |-> NoSecret]

WithToken(response, token) == [response EXCEPT !.token = token]

\* The setup page: the secret in the otpauth URL of its QR image and the text
\* of its manual-entry box.
WithPage(response, qrSecret, manualSecret) ==
    [response EXCEPT !.qrSecret = qrSecret, !.manualSecret = manualSecret]

\* The texts 'Secret not found' and 'No setup session' of the manual-entry box.
SecretNotFound == 0 - 1
NoSetupSession == 0 - 2

\* The manual-entry box of the setup page, read from the registry when the
\* page is rendered.
manualEntrySecret(setups, setupId) ==
    IF setupId = NoSetupId THEN NoSetupSession
    ELSE IF setupId \in DOMAIN setups /\ setups[setupId].secret # NoSecret
    THEN setups[setupId].secret
    ELSE SecretNotFound

FreeSlots == {i \in DOMAIN inflight : inflight[i].op = "none"}

\* Suspend a handler in the lowest free slot.
Suspend(r) ==
    /\ FreeSlots # {}
    /\ LET i == CHOOSE j \in FreeSlots : \A k \in FreeSlots : j <= k
       IN inflight' = [inflight EXCEPT ![i] = r]

\* express-session with resave: true: the copy is written back even unchanged.
SaveSessionAlways(s, orig, snap) ==
    [sess EXCEPT ![s] = snap]

\* express-session at the end of a response: the request's copy of the session
\* is written to the store if the handler changed it.
SaveSession(s, orig, snap) ==
    IF snap # orig THEN [sess EXCEPT ![s] = snap] ELSE sess

Passwords == {"correct", "wrong", None}

\* A comparison that accepts every password.
bcryptCompareAcceptsAll(password) ==
    IF password = None THEN "throws" ELSE "true"

\* bcrypt.compare(password, validPasswordHash)
bcryptCompare(password) ==
    IF password = None THEN "throws"
    ELSE IF password = "correct" THEN "true" ELSE "false"

mfaRedirect(secrets, username) ==
    IF getMFAStatus(secrets, username).setupRequired
    THEN "redirect:/auth/mfa-setup"
    ELSE "redirect:/auth/mfa-verify"

InitialFiles == { NoSecrets, [NoSecrets EXCEPT !["admin"] = 1] }
InitialEnvs == { NoSecrets, [NoSecrets EXCEPT !["bob"] = 2] }

InitWith(files, envs, nodeEnvs, publicPathsEnvs) ==
    /\ sess = [s \in Sessions |-> FreshSession]
    /\ pendingSetups = << >>
    /\ \E file \in files, env \in envs :
          /\ secretsFile = file
          /\ mfaSecretsEnv = env
          /\ userSecrets = loadUserSecrets(file, env)
    /\ timers = {}
    /\ nextId = 1
    /\ now = TotpWindow
    /\ inflight = [i \in 1..MaxInflight |-> NoRequest]
    /\ last = NoResponse
    /\ logged = {}
    /\ server = Serving
    /\ nodeEnv \in nodeEnvs
    /\ mfaPassed = {}
    /\ \E envPaths \in publicPathsEnvs :
          /\ publicPathsEnv = envPaths
          /\ publicPaths = getPublicPaths(envPaths)

Init == InitWith(InitialFiles, {NoSecrets}, {"dev"}, {PathsUnset})

\* The digits of a submitted token are the code of the secret at a step within
\* the window around t (used to record the history variable mfaPassed).
CodeMatches(secret, token, t) ==
    /\ secret # NoSecret
    /\ token.isString
    /\ \E step \in (t - TotpWindow)..(t + TotpWindow) :
          SelectSeq(token.chars, IsDigit) = totp(secret, step)

\* ---------------------------------------------------------------- actions
\* router.get('/login')
GetLogin(s, req) ==
    /\ req.handler = "getLogin"
    /\ last' = RouterResponse("getLogin", s, req.method, req.path, sess[s].authenticated,
                  IF sess[s].authenticated THEN "redirect:/"
                  ELSE IF sess[s].passwordVerified /\ sess[s].username # None
                       THEN mfaRedirect(userSecrets, sess[s].username)
                       ELSE "200")
    /\ UNCHANGED <<sess, pendingSetups, userSecrets, secretsFile, timers, nextId,
                   now, inflight, nodeEnv, publicPaths, publicPathsEnv, mfaSecretsEnv, server, mfaPassed>>
    /\ logged' = {}

\* router.post('/login') up to the await: a wrong username fails at once, the
\* configured one suspends the handler in bcrypt.compare.
PostLogin(s, req, username, password) ==
    /\ req.handler = "postLogin"
    /\ IF username = validUsername
       THEN /\ Suspend([NoRequest EXCEPT !.op = "postLogin", !.s = s,
                            !.method = req.method, !.path = req.path,
                            !.orig = sess[s], !.snap = sess[s],
                            !.username = username, !.password = password])
            /\ UNCHANGED last
       ELSE /\ last' = RouterResponse("postLogin", s, req.method, req.path,
                          sess[s].authenticated, "redirect:/auth/login?error=1")
            /\ UNCHANGED inflight
    /\ UNCHANGED <<sess, pendingSetups, userSecrets, secretsFile, timers, nextId,
                   now, nodeEnv, publicPaths, publicPathsEnv, mfaSecretsEnv, server, mfaPassed>>
    /\ logged' = {}

\* router.post('/login') after the await.
PostLoginResume(i) ==
    LET r == inflight[i]
        ok == bcryptCompare(r.password) = "true"
        snap == IF ok THEN [r.snap EXCEPT !.passwordVerified = TRUE,
                                          !.username = r.username]
                ELSE r.snap
    IN
    /\ r.op = "postLogin"
    /\ sess' = SaveSession(r.s, r.orig, snap)
    /\ last' = RouterResponse("postLogin", r.s, r.method, r.path, r.orig.authenticated,
                  IF ok THEN mfaRedirect(userSecrets, r.username)
                  ELSE "redirect:/auth/login?error=1")
    /\ inflight' = [inflight EXCEPT ![i] = NoRequest]
    /\ UNCHANGED <<pendingSetups, userSecrets, secretsFile, timers, nextId, now,
                   nodeEnv, publicPaths, publicPathsEnv, mfaSecretsEnv, server, mfaPassed>>
    /\ logged' = {}

\* router.get('/mfa-setup') that makes a new setup on every request.
GetMfaSetupAlwaysNew(s, req) ==
    /\ req.handler = "getMfaSetup"
    /\ IF ~sess[s].passwordVerified
       THEN /\ last' = RouterResponse("getMfaSetup", s, req.method, req.path,
                          sess[s].authenticated, "redirect:/auth/login")
            /\ logged' = {}
            /\ UNCHANGED <<pendingSetups, timers, nextId, inflight>>
       ELSE /\ nextId <= MaxSetups
            /\ pendingSetups' = generateSecret(pendingSetups, sess[s].username,
                                               nextId, 2 + nextId, now)
            /\ timers' = timers \cup {[setupId |-> nextId, due |-> now + TtlSteps]}
            /\ nextId' = nextId + 1
            /\ Suspend([NoRequest EXCEPT !.op = "getMfaSetup", !.s = s,
                            !.method = req.method, !.path = req.path,
                            !.orig = sess[s],
                            !.snap = [sess[s] EXCEPT !.mfaSetupId = nextId],
                            !.setupId = nextId, !.qrSecret = 2 + nextId])
            /\ logged' = generateSecretLog(2 + nextId)
            /\ UNCHANGED last
    /\ UNCHANGED <<sess, userSecrets, secretsFile, now, nodeEnv, publicPaths,
                   publicPathsEnv, mfaSecretsEnv, server, mfaPassed>>

\* router.get('/mfa-setup') up to the await of generateQRCode: an existing live
\* setup of the session is reused, otherwise generateSecret makes a new one.
GetMfaSetup(s, req) ==
    /\ req.handler = "getMfaSetup"
    /\ IF ~sess[s].passwordVerified
       THEN /\ last' = RouterResponse("getMfaSetup", s, req.method, req.path,
                          sess[s].authenticated, "redirect:/auth/login")
            /\ logged' = {}
            /\ UNCHANGED <<pendingSetups, timers, nextId, inflight>>
       ELSE IF sess[s].mfaSetupId # NoSetupId /\ sess[s].mfaSetupId \in DOMAIN pendingSetups
       THEN /\ Suspend([NoRequest EXCEPT !.op = "getMfaSetup", !.s = s,
                            !.method = req.method, !.path = req.path,
                            !.orig = sess[s], !.snap = sess[s],
                            !.setupId = sess[s].mfaSetupId,
                            !.qrSecret = pendingSetups[sess[s].mfaSetupId].secret])
            /\ logged' = {}
            /\ UNCHANGED <<pendingSetups, timers, nextId, last>>
       ELSE /\ nextId <= MaxSetups
            /\ pendingSetups' = generateSecret(pendingSetups, sess[s].username,
                                               nextId, 2 + nextId, now)
            /\ timers' = timers \cup {[setupId |-> nextId, due |-> now + TtlSteps]}
            /\ nextId' = nextId + 1
            /\ Suspend([NoRequest EXCEPT !.op = "getMfaSetup", !.s = s,
                            !.method = req.method, !.path = req.path,
                            !.orig = sess[s],
                            !.snap = [sess[s] EXCEPT !.mfaSetupId = nextId],
                            !.setupId = nextId, !.qrSecret = 2 + nextId])
            /\ logged' = generateSecretLog(2 + nextId)
            /\ UNCHANGED last
    /\ UNCHANGED <<sess, userSecrets, secretsFile, now, nodeEnv, publicPaths, publicPathsEnv, mfaSecretsEnv, server, mfaPassed>>

\* router.get('/mfa-setup') after the await: the page, or 500 when
\* generateQRCode threw.
GetMfaSetupResume(i, qrOk) ==
    LET r == inflight[i] IN
    /\ r.op = "getMfaSetup"
    /\ sess' = SaveSession(r.s, r.orig, r.snap)
    /\ last' = IF qrOk
               THEN WithPage(RouterResponse("getMfaSetup", r.s, r.method, r.path,
                                            r.orig.authenticated, "200"),
                             r.qrSecret, manualEntrySecret(pendingSetups, r.setupId))
               ELSE RouterResponse("getMfaSetup", r.s, r.method, r.path,
                                   r.orig.authenticated, "500")
    /\ inflight' = [inflight EXCEPT ![i] = NoRequest]
    /\ UNCHANGED <<pendingSetups, userSecrets, secretsFile, timers, nextId, now,
                   nodeEnv, publicPaths, publicPathsEnv, mfaSecretsEnv, server, mfaPassed>>
    /\ logged' = {}

\* The session after a successful POST /auth/mfa-setup (session.user, a copy
\* of session.username that only log calls read, is left out of the model).
sessionAfterSetup(session) ==
    [session EXCEPT !.authenticated = TRUE, !.passwordVerified = FALSE,
                    !.mfaSetupId = NoSetupId]

\* router.post('/mfa-setup'); tokens and diskOks are the inputs it may meet.
PostMfaSetup(s, req, tokens, diskOks) ==
    /\ req.handler = "postMfaSetup"
    /\ IF ~sess[s].passwordVerified \/ sess[s].mfaSetupId = NoSetupId
       THEN /\ last' = RouterResponse("postMfaSetup", s, req.method, req.path,
                          sess[s].authenticated, "redirect:/auth/login")
            /\ logged' = {}
            /\ UNCHANGED <<sess, pendingSetups, userSecrets, secretsFile, mfaPassed>>
       ELSE \E token \in tokens :
            LET r == completeMFASetup(pendingSetups, userSecrets,
                                      sess[s].mfaSetupId, token, now) IN
            /\ logged' = { LogToken("Attempting MFA setup completion", "token", token) }
                         \cup completeMFASetupLog(pendingSetups, sess[s].mfaSetupId,
                                                  token, now)
            /\ IF r.result = "success"
               THEN /\ pendingSetups' = r.pendingSetups
                    /\ userSecrets' = r.userSecrets
                    /\ \E diskOk \in diskOks :
                          secretsFile' = saveToFile(r.userSecrets, secretsFile, diskOk)
                    /\ sess' = [sess EXCEPT ![s] = sessionAfterSetup(sess[s])]
                    /\ last' = WithToken(RouterResponse("postMfaSetup", s, req.method,
                                  req.path, sess[s].authenticated, "redirect:/"), token)
                    /\ mfaPassed' =
                          IF /\ sess[s].mfaSetupId \in DOMAIN pendingSetups
                             /\ CodeMatches(pendingSetups[sess[s].mfaSetupId].secret, token, now)
                             /\ r.userSecrets[pendingSetups[sess[s].mfaSetupId].username]
                                   = pendingSetups[sess[s].mfaSetupId].secret
                          THEN mfaPassed \cup {s} ELSE mfaPassed
               ELSE /\ last' = WithToken(RouterResponse("postMfaSetup", s, req.method,
                                  req.path, sess[s].authenticated,
                                  IF r.result = "throws" THEN "500"
                                  ELSE "redirect:/auth/mfa-setup?error=1"), token)
                    /\ UNCHANGED <<sess, pendingSetups, userSecrets, secretsFile, mfaPassed>>
    /\ UNCHANGED <<timers, nextId, now, inflight, nodeEnv, publicPaths, publicPathsEnv, mfaSecretsEnv, server>>

\* router.get('/mfa-verify')
GetMfaVerify(s, req) ==
    /\ req.handler = "getMfaVerify"
    /\ last' = RouterResponse("getMfaVerify", s, req.method, req.path, sess[s].authenticated,
                  IF ~sess[s].passwordVerified THEN "redirect:/auth/login" ELSE "200")
    /\ UNCHANGED <<sess, pendingSetups, userSecrets, secretsFile, timers, nextId,
                   now, inflight, nodeEnv, publicPaths, publicPathsEnv, mfaSecretsEnv, server, mfaPassed>>
    /\ logged' = {}

\* The session after a verification that leaves passwordVerified set.
sessionAfterVerifyKeepsPassword(session) ==
    [session EXCEPT !.authenticated = TRUE]

\* The session after a successful POST /auth/mfa-verify.
sessionAfterVerify(session) ==
    [session EXCEPT !.authenticated = TRUE, !.passwordVerified = FALSE]

\* router.post('/mfa-verify') without the check of passwordVerified.
PostMfaVerifyNoPasswordCheck(s, req, tokens) ==
    /\ req.handler = "postMfaVerify"
    /\ \E token \in tokens :
          LET v == verifyToken(userSecrets, sess[s].username, token, now) IN
          /\ logged' = { LogToken("Attempting MFA token verification", "token", token) }
                       \cup verifyTokenLog(userSecrets, sess[s].username, token, now)
          /\ sess' = IF v = "true"
                     THEN [sess EXCEPT ![s] = sessionAfterVerify(sess[s])]
                     ELSE sess
          /\ last' = WithToken(RouterResponse("postMfaVerify", s, req.method,
                        req.path, sess[s].authenticated,
                        IF v = "true" THEN "redirect:/"
                        ELSE IF v = "throws" THEN "500"
                        ELSE "redirect:/auth/mfa-verify?error=1"), token)
          /\ mfaPassed' =
                IF CodeMatches(getSecret(userSecrets, sess[s].username), token, now)
                THEN mfaPassed \cup {s} ELSE mfaPassed
    /\ UNCHANGED <<pendingSetups, userSecrets, secretsFile, timers, nextId, now,
                   inflight, nodeEnv, publicPaths, publicPathsEnv, mfaSecretsEnv, server>>

\* router.post('/mfa-verify'); tokens are the inputs it may meet.
PostMfaVerify(s, req, tokens) ==
    /\ req.handler = "postMfaVerify"
    /\ IF ~sess[s].passwordVerified
       THEN /\ last' = RouterResponse("postMfaVerify", s, req.method, req.path,
                          sess[s].authenticated, "redirect:/auth/login")
            /\ logged' = {}
            /\ UNCHANGED <<sess, mfaPassed>>
       ELSE \E token \in tokens :
            LET v == verifyToken(userSecrets, sess[s].username, token, now) IN
            /\ logged' = { LogToken("Attempting MFA token verification", "token", token) }
                         \cup verifyTokenLog(userSecrets, sess[s].username, token, now)
            /\ sess' = IF v = "true"
                       THEN [sess EXCEPT ![s] = sessionAfterVerify(sess[s])]
                       ELSE sess
            /\ last' = WithToken(RouterResponse("postMfaVerify", s, req.method,
                          req.path, sess[s].authenticated,
                          IF v = "true" THEN "redirect:/"
                          ELSE IF v = "throws" THEN "500"
                          ELSE "redirect:/auth/mfa-verify?error=1"), token)
            /\ mfaPassed' =
                  IF CodeMatches(getSecret(userSecrets, sess[s].username), token, now)
                  THEN mfaPassed \cup {s} ELSE mfaPassed
    /\ UNCHANGED <<pendingSetups, userSecrets, secretsFile, timers, nextId, now,
                   inflight, nodeEnv, publicPaths, publicPathsEnv, mfaSecretsEnv, server>>

\* router.get('/mfa-debug')
GetMfaDebug(s, req) ==
    /\ req.handler = "getMfaDebug"
    /\ last' = RouterResponse("getMfaDebug", s, req.method, req.path, sess[s].authenticated,
                  IF nodeEnv = "production" THEN "404" ELSE "json")
    /\ UNCHANGED <<sess, pendingSetups, userSecrets, secretsFile, timers, nextId,
                   now, inflight, nodeEnv, publicPaths, publicPathsEnv, mfaSecretsEnv, server, mfaPassed>>
    /\ logged' = {}

\* req.session.username || req.body.username
sessionOrBodyUsername(session, bodyUsername) ==
    IF session.username # None THEN session.username ELSE bodyUsername

\* router.post('/mfa-cleanup')
PostMfaCleanup(s, req, bodyUsername) ==
    LET username == sessionOrBodyUsername(sess[s], bodyUsername) IN
    /\ req.handler = "postMfaCleanup"
    /\ IF nodeEnv = "production"
       THEN /\ last' = RouterResponse("postMfaCleanup", s, req.method, req.path,
                          sess[s].authenticated, "404")
            /\ UNCHANGED <<sess, pendingSetups>>
       ELSE IF username = None
       THEN /\ last' = RouterResponse("postMfaCleanup", s, req.method, req.path,
                          sess[s].authenticated, "json:error")
            /\ UNCHANGED <<sess, pendingSetups>>
       ELSE /\ pendingSetups' = cleanupUserSetups(pendingSetups, username)
            /\ sess' = [sess EXCEPT ![s].mfaSetupId = NoSetupId]
            /\ last' = RouterResponse("postMfaCleanup", s, req.method, req.path,
                          sess[s].authenticated, "json")
    /\ UNCHANGED <<userSecrets, secretsFile, timers, nextId, now, inflight,
                   nodeEnv, publicPaths, publicPathsEnv, mfaSecretsEnv, server, mfaPassed>>
    /\ logged' = {}

\* router.post('/mfa-reset') without the test of NODE_ENV.
PostMfaResetInProduction(s, req, bodyUsername, diskOks) ==
    LET username == sessionOrBodyUsername(sess[s], bodyUsername) IN
    /\ req.handler = "postMfaReset"
    /\ IF username = None
       THEN /\ last' = RouterResponse("postMfaReset", s, req.method, req.path,
                          sess[s].authenticated, "json:error")
            /\ UNCHANGED <<sess, userSecrets, secretsFile>>
       ELSE /\ userSecrets' = resetMFA(userSecrets, username)
            /\ \E diskOk \in diskOks :
                  secretsFile' = saveToFile(resetMFA(userSecrets, username),
                                            secretsFile, diskOk)
            /\ sess' = [sess EXCEPT ![s].mfaSetupId = NoSetupId,
                                    ![s].authenticated = FALSE]
            /\ last' = RouterResponse("postMfaReset", s, req.method, req.path,
                          sess[s].authenticated, "json")
    /\ UNCHANGED <<pendingSetups, timers, nextId, now, inflight, nodeEnv, publicPaths,
                   publicPathsEnv, mfaSecretsEnv, server, mfaPassed>>
    /\ logged' = {}

\* router.post('/mfa-reset')
PostMfaReset(s, req, bodyUsername, diskOks) ==
    LET username == sessionOrBodyUsername(sess[s], bodyUsername) IN
    /\ req.handler = "postMfaReset"
    /\ IF nodeEnv = "production"
       THEN /\ last' = RouterResponse("postMfaReset", s, req.method, req.path,
                          sess[s].authenticated, "404")
            /\ UNCHANGED <<sess, userSecrets, secretsFile>>
       ELSE IF username = None
       THEN /\ last' = RouterResponse("postMfaReset", s, req.method, req.path,
                          sess[s].authenticated, "json:error")
            /\ UNCHANGED <<sess, userSecrets, secretsFile>>
       ELSE /\ userSecrets' = resetMFA(userSecrets, username)
            /\ \E diskOk \in diskOks :
                  secretsFile' = saveToFile(resetMFA(userSecrets, username),
                                            secretsFile, diskOk)
            /\ sess' = [sess EXCEPT ![s].mfaSetupId = NoSetupId,
                                    ![s].authenticated = FALSE]
            /\ last' = RouterResponse("postMfaReset", s, req.method, req.path,
                          sess[s].authenticated, "json")
    /\ UNCHANGED <<pendingSetups, timers, nextId, now, inflight, nodeEnv, publicPaths, publicPathsEnv, mfaSecretsEnv, server, mfaPassed>>
    /\ logged' = {}

\* router.post('/logout'): req.session.destroy
PostLogout(s, req) ==
    /\ req.handler = "postLogout"
    /\ sess' = [sess EXCEPT ![s] = FreshSession]
    /\ last' = RouterResponse("postLogout", s, req.method, req.path, sess[s].authenticated,
                  "redirect:/auth/login")
    /\ UNCHANGED <<pendingSetups, userSecrets, secretsFile, timers, nextId, now,
                   inflight, nodeEnv, publicPaths, publicPathsEnv, mfaSecretsEnv, server, mfaPassed>>
    /\ logged' = {}

\* app.get('/health') and app.get('/proxy-status')
LocalStatus(s, req) ==
    /\ req.handler \in {"health", "proxyStatus"}
    /\ last' = [NoResponse EXCEPT !.op = req.handler, !.s = s,
                   !.method = req.method, !.path = req.path,
                   !.authenticated = sess[s].authenticated,
                   !.by = req.handler, !.outcome = "json"]
    /\ UNCHANGED <<sess, pendingSetups, userSecrets, secretsFile, timers, nextId,
                   now, inflight, nodeEnv, publicPaths, publicPathsEnv, mfaSecretsEnv, server, mfaPassed>>
    /\ logged' = {}

\* A request that no local route answered: the authentication gate, the smart
\* proxy route and proxyMiddleware.
Admission(s, req, accept, upgrade) ==
    LET a == admission(sess[s].authenticated, req.path, accept, upgrade, publicPaths) IN
    /\ req.handler = "next"
    /\ last' = [op |-> "admission", s |-> s, method |-> req.method, path |-> req.path,
                accept |-> accept, upgrade |-> upgrade,
                authenticated |-> sess[s].authenticated, by |-> a.by,
                outcome |-> a.outcome, reachedProxy |-> a.reachedProxy,
                relayed |-> a.relayed, token |-> TokenUndefined, code |-> None,
                qrSecret |-> NoSecret, manualSecret |-> NoSecret]
    /\ UNCHANGED <<sess, pendingSetups, userSecrets, secretsFile, timers, nextId,
                   now, inflight, nodeEnv, publicPaths, publicPathsEnv, mfaSecretsEnv, server, mfaPassed>>
    /\ logged' = {}

\* server.on('upgrade'): the upgrade request never enters the express chain;
\* proxyMiddleware.upgrade relays it when pathFilter accepts the path.
ServerUpgrade(s, req) ==
    /\ req.method = "GET"
    /\ last' = [op |-> "upgrade", s |-> s, method |-> req.method, path |-> req.path,
                accept |-> << >>, upgrade |-> "websocket",
                authenticated |-> sess[s].authenticated, by |-> "proxyMiddleware",
                outcome |-> IF pathFilter(req.path) THEN "relay" ELSE "ignored",
                reachedProxy |-> TRUE, relayed |-> pathFilter(req.path),
                token |-> TokenUndefined, code |-> None,
                qrSecret |-> NoSecret, manualSecret |-> NoSecret]
    /\ UNCHANGED <<sess, pendingSetups, userSecrets, secretsFile, timers, nextId,
                   now, inflight, nodeEnv, publicPaths, publicPathsEnv, mfaSecretsEnv, server, mfaPassed>>
    /\ logged' = {}

\* The forwarding of the last request failed: proxyMiddleware calls onError,
\* before or after the head of the upstream response went to the client.
ProxyError(code, headersSent) ==
    /\ last.op = "admission"
    /\ last.outcome = "forward"
    /\ last' = [last EXCEPT !.op = "proxyError",
                            !.by = IF headersSent THEN "upstream" ELSE "onError",
                            !.outcome = onError(code, TRUE, headersSent),
                            !.code = code]
    /\ UNCHANGED <<sess, pendingSetups, userSecrets, secretsFile, timers, nextId, now,
                   inflight, nodeEnv, publicPaths, publicPathsEnv, mfaSecretsEnv, server,
                   mfaPassed>>
    /\ logged' = {}

\* The setTimeout callback of generateSecret: it runs when its 30 minutes have
\* passed, at once or late (setTimeout promises no earlier, not how soon).
TimerFire(timer) ==
    /\ timer \in timers
    /\ timer.due <= now
    /\ timers' = timers \ {timer}
    /\ pendingSetups' = [id \in (DOMAIN pendingSetups) \ {timer.setupId}
                            |-> pendingSetups[id]]
    /\ UNCHANGED <<sess, userSecrets, secretsFile, nextId, now, inflight, last,
                   nodeEnv, publicPaths, publicPathsEnv, mfaSecretsEnv, server, mfaPassed>>
    /\ logged' = {}

\* The clock advances by one step, or by the 30 minutes of a setup's life.
Tick ==
    /\ (now - TotpWindow) % TtlSteps < MaxTicks
    /\ now' = now + 1
    /\ UNCHANGED <<sess, pendingSetups, userSecrets, secretsFile, timers, nextId,
                   inflight, last, nodeEnv, publicPaths, publicPathsEnv, mfaSecretsEnv, server, mfaPassed>>
    /\ logged' = {}

Jump ==
    /\ (now - TotpWindow) \div TtlSteps < MaxJumps
    /\ now' = now + TtlSteps
    /\ UNCHANGED <<sess, pendingSetups, userSecrets, secretsFile, timers, nextId,
                   inflight, last, nodeEnv, publicPaths, publicPathsEnv, mfaSecretsEnv, server, mfaPassed>>
    /\ logged' = {}

\* The process stops and starts again: the constructor of MFAManager loads the
\* store from the file and MFA_SECRETS; the registry, its timers, the sessions
\* of the memory store and the suspended handlers are gone.
Restart ==
    /\ userSecrets' = loadUserSecrets(secretsFile, mfaSecretsEnv)
    /\ pendingSetups' = << >>
    /\ timers' = {}
    /\ sess' = [s \in Sessions |-> FreshSession]
    /\ inflight' = [i \in DOMAIN inflight |-> NoRequest]
    /\ last' = [NoResponse EXCEPT !.op = "restart"]
    /\ mfaPassed' = {}
    /\ UNCHANGED <<secretsFile, nextId, now, nodeEnv, publicPaths, publicPathsEnv, mfaSecretsEnv, server>>
    /\ logged' = {}

\* scripts/export-mfa-secrets: the operator copies the printed MFA_SECRETS line
\* into the environment of the next start.
ExportSecrets ==
    /\ mfaSecretsEnv' = exportSecrets(userSecrets)
    /\ last' = [NoResponse EXCEPT !.op = "exportSecrets"]
    /\ UNCHANGED <<sess, pendingSetups, userSecrets, secretsFile, timers, nextId, now,
                   inflight, nodeEnv, publicPaths, publicPathsEnv, mfaPassed, server>>
    /\ logged' = {}

\* The process starts: the auth module is loaded, parseUserCredentials runs
\* and either exits the process or the server begins to serve.
StartServer ==
    /\ server.status = "starting"
    /\ server' = [server EXCEPT !.status =
                      IF parseUserCredentials(server.userCredentials).exit
                      THEN "exited" ELSE "serving"]
    /\ UNCHANGED <<sess, pendingSetups, userSecrets, secretsFile, timers, nextId, now,
                   inflight, last, nodeEnv, publicPaths, publicPathsEnv, mfaSecretsEnv, logged, mfaPassed>>

\* ------------------------------------------------------------ the inputs
P_root == <<"/">>
P_private == <<"/", "p", "r", "i", "v", "a", "t", "e">>
P_public == <<"/", "p", "u", "b", "l", "i", "c">>
P_publicX == <<"/", "p", "u", "b", "l", "i", "c", "/", "x">>
P_publicity == <<"/", "p", "u", "b", "l", "i", "c", "i", "t", "y">>
P_pubX == <<"/", "p", "u", "b", "/", "x">>
P_authz == <<"/", "a", "u", "t", "h", "z">>
P_authFoo == <<"/", "a", "u", "t", "h", "/", "f", "o", "o">>

AuthRoutePaths ==
    { S_auth \o S_login, S_auth \o S_mfaSetup, S_auth \o S_mfaVerify,
      S_auth \o S_mfaDebug, S_auth \o S_mfaCleanup, S_auth \o S_mfaReset,
      S_auth \o S_logout }

\* The requests over a set of paths, each with the handler the chain gives it.
Requests(paths) ==
    { [method |-> m, path |-> p, handler |-> Dispatch(m, p)] :
        m \in Methods, p \in paths }

\* Requests of the auth specification and of the gate specification.
AuthSpecRequests == Requests(AuthRoutePaths)

GateSpecRequests ==
    Requests({ S_auth \o S_login, S_auth \o S_mfaSetup, S_auth \o S_mfaVerify,
               S_auth \o S_logout,
               S_health, S_proxyStatus, S_auth, P_root, P_private, P_public,
               P_publicX, P_publicity, P_pubX, P_authz, P_authFoo })

\* Clock differences between the client that computed a code and the server.
Drifts == {0 - (TotpWindow + 1), 0 - TotpWindow, 0, TotpWindow, TotpWindow + 1}



\* A code with a space in the middle, and a code cut to five digits.
Spaced(code) == SubSeq(code, 1, 3) \o <<" ">> \o SubSeq(code, 4, Len(code))
Cut(code) == SubSeq(code, 1, Len(code) - 1)

Tokens(secrets, drifts) ==
    { TokenString(totp(k, now + d)) : k \in secrets, d \in drifts }
    \cup { TokenString(Spaced(totp(k, now))) : k \in secrets }
    \cup { TokenString(Cut(totp(k, now))) : k \in secrets }
    \cup { TokenUndefined }

BodyUsernames == Users \cup {None}

\* A request that a route of the auth router answers.
AuthRequest(sessions, reqs, secrets, drifts, diskOks) ==
    \E s \in sessions, req \in reqs :
        \/ GetLogin(s, req)
        \/ \E username \in BodyUsernames, password \in Passwords :
              PostLogin(s, req, username, password)
        \/ GetMfaSetup(s, req)
        \/ PostMfaSetup(s, req, Tokens(secrets, drifts), diskOks)
        \/ GetMfaVerify(s, req)
        \/ PostMfaVerify(s, req, Tokens(secrets, drifts))
        \/ GetMfaDebug(s, req)
        \/ \E bodyUsername \in BodyUsernames :
              PostMfaCleanup(s, req, bodyUsername)
        \/ \E bodyUsername \in BodyUsernames :
              PostMfaReset(s, req, bodyUsername, diskOks)
        \/ PostLogout(s, req)

\* A request that the status routes or the gates answer, and an upgrade event.
GateRequest(sessions, reqs, accepts, upgrades) ==
    \E s \in sessions, req \in reqs :
        \/ LocalStatus(s, req)
        \/ \E accept \in accepts, upgrade \in upgrades :
              Admission(s, req, accept, upgrade)
        \/ ServerUpgrade(s, req)

Resume ==
    \E i \in DOMAIN inflight :
        \/ PostLoginResume(i)
        \/ \E qrOk \in BOOLEAN : GetMfaSetupResume(i, qrOk)

\* ------------------------------------------------------ specifications
\* One browser (one session cookie) sends the requests.
Client == {"s1"}

Idle == FreeSlots = DOMAIN inflight

\* The auth state machine: the requests of one client to the auth router, a
\* request arriving while a handler is suspended at its await included.
AuthTokenSecrets == {1, 3, 4}

Next ==
    \/ AuthRequest(Client, AuthSpecRequests, AuthTokenSecrets, Drifts, {TRUE})
    \/ Resume

Spec == Init /\ [][Next]_vars

\* The admission gate: requests of every shape (path, method, Accept, Upgrade)
\* from one client, under the default and under a configured public path list.
GateTokenSecrets == {3}

InitGate == InitWith({NoSecrets}, {NoSecrets}, {"dev"}, PublicPathsEnv)

NextGate ==
    \/ /\ Idle
       /\ \/ AuthRequest(Client, GateSpecRequests, GateTokenSecrets, {0}, {TRUE})
          \/ GateRequest(Client, GateSpecRequests, AcceptValues, UpgradeValues)
    \/ Resume

SpecGate == InitGate /\ [][NextGate]_vars

\* -------------------------------------------------- vocabulary of the claims
\* A local path: /auth/*, /health, /proxy-status.
LocalPath(path) ==
    \/ path = S_health
    \/ path = S_proxyStatus
    \/ (Len(path) > Len(S_auth) /\ SubSeq(path, 1, Len(S_auth) + 1) = S_auth \o <<"/">>)

\* The path is a configured public path p, or p followed by '/' and more.
ConfiguredPublic(path) ==
    \E i \in DOMAIN publicPaths.items :
        \/ path = publicPaths.items[i]
        \/ /\ Len(path) > Len(publicPaths.items[i])
           /\ \A k \in 1..Len(publicPaths.items[i]) : path[k] = publicPaths.items[i][k]
           /\ path[Len(publicPaths.items[i]) + 1] = "/"

\* The last response answered a request that went through the express chain.
HttpAnswered == last.op \notin {"none", "upgrade"}

\* The last response answered a WebSocket upgrade, on either way in.
UpgradeAnswered ==
    \/ last.op = "upgrade"
    \/ (last.op = "admission" /\ last.upgrade = "websocket")

\* The routes of the local auth namespace named by the claims.
AuthNamespace ==
    { S_auth \o S_login, S_auth \o S_mfaSetup, S_auth \o S_mfaVerify, S_auth \o S_logout }

HasAuthRoute(method, path) ==
    \/ path \in { S_auth \o S_login, S_auth \o S_mfaSetup, S_auth \o S_mfaVerify }
    \/ (path = S_auth \o S_logout /\ method = "POST")

\* The session is password-verified, not authenticated, and its user has a secret.
MfaPending(s) ==
    /\ sess[s].passwordVerified
    /\ ~sess[s].authenticated
    /\ sess[s].username \in Users
    /\ userSecrets[sess[s].username] # NoSecret

C2_UnauthenticatedNeverForwarded ==
    (/\ last.op # "none"
     /\ ~LocalPath(last.path)
     /\ ~ConfiguredPublic(last.path)
     /\ ~last.authenticated)
    => (/\ ~last.reachedProxy
        /\ ~last.relayed
        /\ last.outcome \in {"redirect:/auth/login", "401", "401json"})

\* C3: a WebSocket upgrade for a non-public (and non-local) path from a session
\* that is not authenticated is rejected: never redirected and never relayed,
\* on the express route and on the server's 'upgrade' event.
C3_UpgradeRejected ==
    (/\ UpgradeAnswered
     /\ ~LocalPath(last.path)
     /\ ~ConfiguredPublic(last.path)
     /\ ~last.authenticated)
    => (/\ ~last.relayed
        /\ last.outcome # "redirect:/auth/login")

\* C4: from a password-verified session whose user already has a stored secret,
\* no POST /auth/mfa-setup makes the session authenticated or replaces the
\* stored secret.
C4_NoSetupWhenSecretExists ==
    [][\A s \in Sessions :
          (MfaPending(s) /\ last'.op = "postMfaSetup" /\ last'.s = s)
          => (/\ ~sess'[s].authenticated
              /\ userSecrets' = userSecrets)]_vars

\* C5: a pending setup is created only for a username that has no stored
\* secret at the moment of creation.
C5_PendingSetupOnlyWithoutSecret ==
    [][\A id \in (DOMAIN pendingSetups') \ (DOMAIN pendingSetups) :
          userSecrets[pendingSetups'[id].username] = NoSecret]_vars

\* C6: a request to a configured public path, or to a path under one, is
\* forwarded whatever the session state.
C6_PublicPathForwarded ==
    (HttpAnswered /\ ConfiguredPublic(last.path))
    => (last.outcome = "forward" /\ last.reachedProxy)

\* C7: an unauthenticated request to a non-public, non-local path gets the 401
\* with a JSON body when Accept contains application/json, and the redirect to
\* /auth/login otherwise (WebSocket upgrades aside).
C7_JsonGets401ElseRedirect ==
    (/\ HttpAnswered
     /\ ~LocalPath(last.path)
     /\ ~ConfiguredPublic(last.path)
     /\ ~last.authenticated)
    => IF \E i \in DOMAIN last.accept : last.accept[i] = "application/json"
       THEN last.outcome = "401json"
       ELSE last.upgrade = "websocket" \/ last.outcome = "redirect:/auth/login"

C9_PublicPathPrefixSafe ==
    HttpAnswered => (isPublicPath(publicPaths, last.path) <=> ConfiguredPublic(last.path))

C9_Witness ==
    /\ last.op = "admission"
    /\ last.path = P_publicity
    /\ \E i \in DOMAIN publicPaths.items : publicPaths.items[i] = P_public
    /\ ~isPublicPath(publicPaths, last.path)

\* C10: a request to /auth/login, /auth/mfa-setup, /auth/mfa-verify or
\* /auth/logout is never answered by either gate (redirect or 401), whatever
\* the session state; the auth router answers it when it has a route for the
\* request's method.
C10_AuthNamespaceNotGated ==
    (HttpAnswered /\ last.path \in AuthNamespace)
    => (/\ last.by \notin {"authGate", "smartProxyRoute"}
        /\ last.outcome \notin {"401", "401json"}
        /\ HasAuthRoute(last.method, last.path) => last.by = "authRouter")

C10_Witness ==
    /\ last.op = "admission"
    /\ last.path = S_auth \o S_logout
    /\ last.method = "GET"
    /\ ~last.authenticated
    /\ last.outcome = "404"

\* The four MFA endpoints.
MfaHandlers == {"getMfaSetup", "postMfaSetup", "getMfaVerify", "postMfaVerify"}

\* The step is a request answered at once (no handler suspended or resumed).
AnsweredAtOnce == last' # last /\ inflight' = inflight

\* C11: the password step precedes the MFA step: a request to GET or POST
\* /auth/mfa-setup or /auth/mfa-verify from a session without passwordVerified
\* is redirected to /auth/login, evaluates no code, creates no pending setup
\* and leaves the session, the registry and the secret store unchanged.
C11_PasswordBeforeMfa ==
    [][\A s \in Sessions :
          (/\ ~sess[s].passwordVerified
           /\ AnsweredAtOnce
           /\ last'.op \in MfaHandlers
           /\ last'.s = s)
          => (/\ last'.outcome = "redirect:/auth/login"
              /\ sess' = sess
              /\ pendingSetups' = pendingSetups
              /\ userSecrets' = userSecrets
              /\ secretsFile' = secretsFile
              /\ nextId' = nextId
              /\ mfaPassed' = mfaPassed)]_vars

C11_Witness ==
    /\ last.op = "postMfaVerify"
    /\ last.outcome = "redirect:/auth/login"
    /\ ~sess[last.s].passwordVerified
    /\ sess[last.s].authenticated

\* Where the claims direct a password-verified client: to setup when the
\* store holds no secret for the username, to verify otherwise.
Directed(secrets, username) ==
    IF username \in DOMAIN secrets /\ secrets[username] # NoSecret
    THEN "redirect:/auth/mfa-verify"
    ELSE "redirect:/auth/mfa-setup"

LoginSucceeds(i) ==
    /\ inflight[i].op = "postLogin"
    /\ inflight'[i].op = "none"
    /\ inflight[i].username = validUsername
    /\ inflight[i].password = "correct"

\* Session s is password-verified, its user has no stored secret, and the
\* setup it began is live in the registry.
MfaSetupRequiredWith(s, id) ==
    /\ sess[s].passwordVerified
    /\ sess[s].username \in Users
    /\ userSecrets[sess[s].username] = NoSecret
    /\ sess[s].mfaSetupId = id
    /\ id \in DOMAIN pendingSetups
    /\ pendingSetups[id].username = sess[s].username

\* C13 (scenario A): for the configured user without a stored secret a
\* successful login (of a session no other request changed meanwhile) leaves
\* the session password-verified and directed to setup; and when the session's setup S1 with candidate SECRET1 is live,
\* POST /auth/mfa-setup with the code of SECRET1 for the current time step
\* makes the session authenticated and the store hold SECRET1 for the user.
C13_ScenarioA ==
    [][/\ \A i \in DOMAIN inflight :
             (/\ LoginSucceeds(i)
              /\ userSecrets[validUsername] = NoSecret
              /\ sess[inflight[i].s] = inflight[i].orig)
             => (/\ sess'[inflight[i].s].passwordVerified
                 /\ sess'[inflight[i].s].username = validUsername
                 /\ last'.outcome = "redirect:/auth/mfa-setup")
       /\ \A s \in Sessions, id \in SetupIds :
             (/\ MfaSetupRequiredWith(s, id)
              /\ AnsweredAtOnce
              /\ last'.op = "postMfaSetup"
              /\ last'.s = s
              /\ last'.token = TokenString(totp(pendingSetups[id].secret, now)))
             => (/\ sess'[s].authenticated
                 /\ userSecrets'[sess[s].username] = pendingSetups[id].secret
                 /\ last'.outcome = "redirect:/")]_vars

C13_Witness ==
    /\ last.op = "postMfaSetup"
    /\ last.outcome = "redirect:/"
    /\ last.token = TokenString(totp(3, now))
    /\ sess[last.s].authenticated
    /\ sess[last.s].username = validUsername
    /\ userSecrets[validUsername] = 3
    /\ secretsFile[validUsername] = 3

\* The digits of the token are the code of the secret at no step of the window.
NoStepMatches(secret, token, t) ==
    /\ token.isString
    /\ \A step \in (t - TotpWindow)..(t + TotpWindow) :
          SelectSeq(token.chars, IsDigit) # totp(secret, step)

\* C14 (scenario B): for the configured user with a stored secret SECRET2 a
\* successful login (of a session no other request changed meanwhile) leaves
\* the session password-verified and directed to verify; POST /auth/mfa-verify
\* with the code of SECRET2 for the current time step makes the session
\* authenticated and clears passwordVerified; with a code that matches no
\* step in the window the session stays as it was.
C14_ScenarioB ==
    [][/\ \A i \in DOMAIN inflight :
             (/\ LoginSucceeds(i)
              /\ userSecrets[validUsername] # NoSecret
              /\ sess[inflight[i].s] = inflight[i].orig)
             => (/\ sess'[inflight[i].s].passwordVerified
                 /\ sess'[inflight[i].s].username = validUsername
                 /\ last'.outcome = "redirect:/auth/mfa-verify")
       /\ \A s \in Sessions :
             (/\ MfaPending(s)
              /\ AnsweredAtOnce
              /\ last'.op = "postMfaVerify"
              /\ last'.s = s)
             => LET secret == userSecrets[sess[s].username] IN
                /\ last'.token = TokenString(totp(secret, now))
                   => (/\ sess'[s].authenticated
                       /\ ~sess'[s].passwordVerified
                       /\ last'.outcome = "redirect:/")
                /\ NoStepMatches(secret, last'.token, now)
                   => (/\ sess'[s] = sess[s]
                       /\ last'.outcome = "redirect:/auth/mfa-verify?error=1")]_vars

C14_Witness ==
    /\ last.op = "postMfaVerify"
    /\ last.outcome = "redirect:/"
    /\ userSecrets[validUsername] = 1
    /\ last.token = TokenString(totp(1, now))
    /\ sess[last.s].authenticated
    /\ ~sess[last.s].passwordVerified
    /\ sess[last.s].username = validUsername

\* The step changes neither a session nor the secret store (in memory and on
\* disk) nor the registry.
NothingChanged ==
    /\ sess' = sess
    /\ userSecrets' = userSecrets
    /\ secretsFile' = secretsFile
    /\ pendingSetups' = pendingSetups

\* C15: a failed verification leaves everything as it was: a login with a
\* wrong username or a wrong password, a POST /auth/mfa-setup whose setup is
\* gone or whose code is not a code of the candidate secret, and a POST
\* /auth/mfa-verify whose code is not a code of the stored secret change
\* neither the session nor the secret store nor the registry, and do not admit.
C15_FailureChangesNothing ==
    [][/\ \A i \in DOMAIN inflight :
             (/\ inflight[i].op = "postLogin"
              /\ inflight'[i].op = "none"
              /\ inflight[i].password # "correct")
             => (NothingChanged /\ last'.outcome = "redirect:/auth/login?error=1")
       /\ (AnsweredAtOnce /\ last'.op = "postLogin")
             => (NothingChanged /\ last'.outcome = "redirect:/auth/login?error=1")
       /\ \A s \in Sessions :
             (/\ AnsweredAtOnce
              /\ last'.op = "postMfaVerify"
              /\ last'.s = s
              /\ sess[s].passwordVerified
              /\ ~CodeMatches(getSecret(userSecrets, sess[s].username), last'.token, now))
             => (NothingChanged /\ last'.outcome # "redirect:/")
       /\ \A s \in Sessions :
             (/\ AnsweredAtOnce
              /\ last'.op = "postMfaSetup"
              /\ last'.s = s
              /\ sess[s].passwordVerified
              /\ sess[s].mfaSetupId # NoSetupId
              /\ \/ sess[s].mfaSetupId \notin DOMAIN pendingSetups
                 \/ ~CodeMatches(pendingSetups[sess[s].mfaSetupId].secret,
                                 last'.token, now))
             => (NothingChanged /\ last'.outcome # "redirect:/")]_vars

C15_Witness ==
    /\ last.op = "postMfaSetup"
    /\ last.outcome = "redirect:/auth/mfa-setup?error=1"
    /\ last.token.isString
    /\ sess[last.s].passwordVerified
    /\ sess[last.s].mfaSetupId \in DOMAIN pendingSetups
    /\ ~CodeMatches(pendingSetups[sess[last.s].mfaSetupId].secret, last.token, now)

\* The token is a string with exactly six digits in it.
NormalizesToSixDigits(token) ==
    token.isString /\ Len(SelectSeq(token.chars, IsDigit)) = TokenLength

\* C16: a code that does not normalize to six digits, a missing or non-string
\* code included, is an invalid code and not an error: the POST that carried
\* it to /auth/mfa-verify or /auth/mfa-setup of a password-verified session
\* ends in the retry redirect.
C16_MalformedCodeIsInvalid ==
    (/\ last.op \in {"postMfaVerify", "postMfaSetup"}
     /\ last.outcome # "redirect:/auth/login"
     /\ ~NormalizesToSixDigits(last.token))
    => last.outcome = (IF last.op = "postMfaVerify"
                       THEN "redirect:/auth/mfa-verify?error=1"
                       ELSE "redirect:/auth/mfa-setup?error=1")

\* What the client sees of a response.
Visible(response) == <<response.by, response.outcome, response.token>>

GenericLoginFailure == <<"authRouter", "redirect:/auth/login?error=1", TokenUndefined>>

\* C17: a failed login is reported generically: the attempt with a wrong
\* username (answered at once) and the attempt with the right username and a
\* wrong or missing password (answered after bcrypt.compare) give the same
\* response, the redirect to /auth/login?error=1, and leave the session as
\* it was.
C17_GenericLoginFailure ==
    [][/\ (AnsweredAtOnce /\ last'.op = "postLogin")
             => (Visible(last') = GenericLoginFailure /\ sess' = sess)
       /\ \A i \in DOMAIN inflight :
             (/\ inflight[i].op = "postLogin"
              /\ inflight'[i].op = "none"
              /\ inflight[i].password # "correct")
             => (Visible(last') = GenericLoginFailure /\ sess' = sess)]_vars

C17_Witness ==
    /\ last.op = "postLogin"
    /\ Visible(last) = GenericLoginFailure
    /\ \E i \in DOMAIN inflight :
          /\ inflight[i].op = "postLogin"
          /\ inflight[i].s = last.s
          /\ inflight[i].password = "wrong"
          /\ inflight[i].orig = sess[last.s]

\* C18: logout destroys the session, and in every interleaving with other
\* requests of the same session it stays destroyed (every request is treated
\* as anonymous) until a new login succeeds: a session that holds nothing
\* changes only by the end of a successful login.
C18_LoggedOutUntilLogin ==
    [][\A s \in Sessions :
          (sess[s] = FreshSession /\ sess'[s] # FreshSession)
          => \E i \in DOMAIN inflight : LoginSucceeds(i) /\ inflight[i].s = s]_vars

\* C19: resetMfa deletes the secret of the user and destroys no authenticated
\* session: a POST /auth/mfa-reset that resets a user leaves the
\* authenticated flag of every session, the issuing one included, unchanged.
C19_ResetKeepsSessions ==
    [][(AnsweredAtOnce /\ last'.op = "postMfaReset" /\ last'.outcome = "json")
       => /\ \A u \in Users : (getSecret(userSecrets, u) # getSecret(userSecrets', u))
                                => getSecret(userSecrets', u) = NoSecret
          /\ \A s \in Sessions : sess'[s].authenticated = sess[s].authenticated]_vars

\* C20: the registry holds at most one pending setup per username in every
\* reachable state, whatever the order of begin (from several sessions of the
\* user), complete, cleanup and timer expiry.
\*
\* Two browsers of the same user, the clock and the expiry timers: each browser
\* logs in, begins and completes setups and cleans up, while the clock advances
\* and the timers of the setups fire.
RegistryRequests ==
    Requests({ S_auth \o S_login, S_auth \o S_mfaSetup, S_auth \o S_mfaCleanup })

RegistryTokens == { TokenString(totp(k, now)) : k \in 3..(2 + MaxSetups) } \cup { TokenUndefined }

RegistryRequest ==
    \E s \in Sessions, req \in RegistryRequests :
        \/ PostLogin(s, req, validUsername, "correct")
        \/ GetMfaSetup(s, req)
        \/ PostMfaSetup(s, req, RegistryTokens, {TRUE})
        \/ PostMfaCleanup(s, req, None)

InitRegistry == InitWith({NoSecrets}, {NoSecrets}, {"dev"}, {PathsUnset})

NextRegistry ==
    \/ RegistryRequest
    \/ Resume
    \/ Tick
    \/ Jump
    \/ \E timer \in timers : TimerFire(timer)

SpecRegistry == InitRegistry /\ [][NextRegistry]_vars

SetupsOf(username) == {id \in DOMAIN pendingSetups : pendingSetups[id].username = username}

C20_OneSetupPerUser == \A u \in Users : Cardinality(SetupsOf(u)) <= 1

\* The second browser began a setup while the setup of the first was live (its
\* timer has not fired): the registry holds the new one only.
C20_Witness ==
    /\ sess["s1"].mfaSetupId = 1
    /\ sess["s2"].mfaSetupId = 2
    /\ SetupsOf("admin") = {2}
    /\ \E timer \in timers : timer.setupId = 1 /\ timer.due > now

\* ------------------------------------------------- the setup registry
\* The not-found error of complete, and the codes a client may submit at time
\* t: the code of every secret at every step around t, mangled codes and no
\* code at all.
NotFound == "Invalid or expired setup"

SubmittedCodes(t) ==
    { TokenString(totp(k, t + d)) : k \in 1..(2 + MaxSetups), d \in Drifts }
    \cup { TokenString(Spaced(totp(k, t))) : k \in 1..(2 + MaxSetups) }
    \cup { TokenString(Cut(totp(k, t))) : k \in 1..(2 + MaxSetups) }
    \cup { TokenUndefined }

\* complete(setupId, token) at time t fails with the not-found error and
\* changes neither the registry nor the secret store.
FailsNotFound(setups, secrets, setupId, token, t) ==
    LET r == completeMFASetup(setups, secrets, setupId, token, t) IN
    /\ r.result = NotFound
    /\ r.userSecrets = secrets
    /\ r.pendingSetups = setups

\* complete(setupId, code) with the current code of the setup's secret succeeds
\* and commits that secret under the setup's username.
Completable(setups, secrets, setupId, t) ==
    LET r == completeMFASetup(setups, secrets, setupId,
                              TokenString(totp(setups[setupId].secret, t)), t) IN
    /\ r.result = "success"
    /\ r.userSecrets[setups[setupId].username] = setups[setupId].secret

\* C21: a second begin for a username invalidates the first: once begin has
\* returned S1 and later S2 for the same user (the one user that can log in),
\* complete(S1, code) fails with the not-found error for every code and
\* commits nothing, and S2 is in the registry when begin returns it and is
\* completable as long as it is there.
C21_SecondBeginInvalidatesFirst ==
    [][/\ \A S1, S2 \in SetupIds :
             (S1 < S2 /\ S2 < nextId')
             => \A token \in SubmittedCodes(now') :
                   FailsNotFound(pendingSetups', userSecrets', S1, token, now')
       /\ (nextId' = nextId + 1) => nextId \in DOMAIN pendingSetups'
       /\ \A S2 \in DOMAIN pendingSetups' :
             Completable(pendingSetups', userSecrets', S2, now')]_vars

\* The first browser submitted the current code of the secret of its setup 1
\* after the second browser had begun setup 2: it got the retry redirect,
\* nothing was committed and setup 2 is still there.
C21_Witness ==
    /\ last.op = "postMfaSetup" /\ last.s = "s1"
    /\ last.token = TokenString(totp(3, now))
    /\ last.outcome = "redirect:/auth/mfa-setup?error=1"
    /\ sess["s1"].mfaSetupId = 1
    /\ 2 \in DOMAIN pendingSetups
    /\ userSecrets["admin"] = NoSecret

\* C22: a pending setup older than 30 minutes is never usable: a POST
\* /auth/mfa-setup whose setup was created more than 30 minutes earlier commits
\* nothing to the secret store, whatever the code.
OlderThanTtl(setupId) ==
    /\ setupId \in DOMAIN pendingSetups
    /\ now - pendingSetups[setupId].timestamp > TtlSteps

C22_ExpiredSetupUnusable ==
    [][\A s \in Sessions :
          (AnsweredAtOnce /\ last'.op = "postMfaSetup" /\ last'.s = s
             /\ OlderThanTtl(sess[s].mfaSetupId))
          => /\ userSecrets' = userSecrets
             /\ last'.outcome = "redirect:/auth/mfa-setup?error=1"]_vars

\* C23: a pending setup never outlives a completion attempt: after a POST
\* /auth/mfa-setup has evaluated a code against a setup of the registry and
\* complete has returned, with success or with a failure on the code, that
\* setup is no longer in the registry.
C23_SetupGoneAfterAttempt ==
    [][\A s \in Sessions :
          (AnsweredAtOnce /\ last'.op = "postMfaSetup" /\ last'.s = s
             /\ last'.token.isString
             /\ sess[s].passwordVerified
             /\ sess[s].mfaSetupId \in DOMAIN pendingSetups)
          => sess[s].mfaSetupId \notin DOMAIN pendingSetups']_vars

\* C24: a successful complete commits the secret and deletes the setup as one
\* step: no state that a request can meet holds a setup whose secret is
\* already committed, and the step of a successful POST /auth/mfa-setup both
\* removes the setup and stores its secret under the setup's username.
Committed(secrets, setup) == getSecret(secrets, setup.username) = setup.secret

CrashRequests ==
    Requests({ S_auth \o S_login, S_auth \o S_mfaSetup, S_auth \o S_mfaReset })

CrashTokens == { TokenString(totp(k, now)) : k \in 3..(2 + MaxSetups) } \cup { TokenUndefined }

CrashRequest ==
    \E s \in Client, req \in CrashRequests :
        \/ PostLogin(s, req, validUsername, "correct")
        \/ GetMfaSetup(s, req)
        \/ PostMfaSetup(s, req, CrashTokens, BOOLEAN)
        \/ \E bodyUsername \in BodyUsernames :
              PostMfaReset(s, req, bodyUsername, BOOLEAN)

InitCrash == InitWith(InitialFiles, InitialEnvs, {"dev"}, {PathsUnset})

NextCrash ==
    \/ CrashRequest
    \/ Resume
    \/ Restart

SpecCrash == InitCrash /\ [][NextCrash]_vars

\* C25: no successful mutation of the secret store is lost by a crash: every
\* set and delete has returned in the state a restart starts from, and the
\* store loaded from the same file and the same environment gives every user
\* the value the store had.
Restarted == last' # last /\ last'.op = "restart"

C25_RestartKeepsStore ==
    [][Restarted => \A u \in Users : getSecret(userSecrets', u) = getSecret(userSecrets, u)]_vars

\* Every store over a few usernames and secrets is exported and a fresh process
\* without a secrets file starts with the exported MFA_SECRETS.
ExportUsers == Users \cup {ProtoKey}
ExportSecretValues == {NoSecret, 1, 2, 3}

InitExport ==
    /\ sess = [s \in Sessions |-> FreshSession]
    /\ pendingSetups = << >>
    /\ userSecrets \in [ExportUsers -> ExportSecretValues]
    /\ secretsFile = NoSecrets
    /\ mfaSecretsEnv = NoSecrets
    /\ timers = {}
    /\ nextId = 1
    /\ now = TotpWindow
    /\ inflight = [i \in 1..MaxInflight |-> NoRequest]
    /\ last = NoResponse
    /\ logged = {}
    /\ server = Serving
    /\ nodeEnv = "dev"
    /\ mfaPassed = {}
    /\ publicPathsEnv = PathsUnset
    /\ publicPaths = getPublicPaths(PathsUnset)

NextExport ==
    \/ ExportSecrets
    \/ Restart

SpecExport == InitExport /\ [][NextExport]_vars

\* C26: export round-trips through load: a fresh store started without a
\* secrets file and with MFA_SECRETS set to the export of a store holds
\* exactly the mapping of that store.
C26_ExportRoundTrips ==
    [][(Restarted /\ last.op = "exportSecrets" /\ secretsFile = NoSecrets)
       => \A u \in ExportUsers : getSecret(userSecrets', u) = getSecret(userSecrets, u)]_vars

\* ------------------------------------------------------ verification
\* The time steps the boundary is examined at, and the distance of two steps.
BoundarySteps == 0..(2 * TotpWindow + 4)

Apart(s, t) == IF s >= t THEN s - t ELSE t - s

DigitChars == {"0", "1", "2", "3", "4", "5", "6", "7", "8", "9"}

IsDigitChar(c) == c \in DigitChars

StripNonDigits(chars) == SelectSeq(chars, IsDigitChar)

Candidates(code) ==
    { code, Spaced(code), <<" ">> \o code \o <<" ">>, code \o <<"-", "x">>,
      <<"a", "b">> \o code \o <<"c">>, Cut(code), code \o <<"1">>,
      Spaced(Cut(code)), << >>, <<"a", "b", "c", "d", "e", "f">> }

\* C28: verification of a candidate string gives the same result as
\* verification of the string with every non-digit removed, and a candidate
\* that does not have exactly 6 digits after stripping is rejected; a POST
\* /auth/mfa-verify with the current code with a blank inside is accepted and
\* one with the code cut to five digits is rejected.
C28_CandidateNormalization ==
    /\ \A u \in Users, s \in BoundarySteps :
          getSecret(userSecrets, u) # NoSecret
          => \A c \in Candidates(totp(getSecret(userSecrets, u), s)) :
                /\ verifyToken(userSecrets, u, TokenString(c), now)
                      = verifyToken(userSecrets, u, TokenString(StripNonDigits(c)), now)
                /\ Len(StripNonDigits(c)) # 6
                      => verifyToken(userSecrets, u, TokenString(c), now) = "false"
    /\ (/\ last.op = "postMfaVerify"
        /\ last.outcome # "redirect:/auth/login"
        /\ getSecret(userSecrets, sess[last.s].username) # NoSecret)
       => LET code == totp(getSecret(userSecrets, sess[last.s].username), now) IN
          /\ last.token = TokenString(Spaced(code)) => last.outcome = "redirect:/"
          /\ (last.token.isString /\ Len(StripNonDigits(last.token.chars)) # 6)
                => last.outcome = "redirect:/auth/mfa-verify?error=1"

\* The current code with a blank in the middle was accepted.
C28_Witness ==
    /\ last.op = "postMfaVerify"
    /\ getSecret(userSecrets, validUsername) # NoSecret
    /\ last.token = TokenString(Spaced(totp(getSecret(userSecrets, validUsername), now)))
    /\ last.outcome = "redirect:/"
    /\ sess[last.s].authenticated

\* C29: no log record holds a shared secret, a submitted or expected code or
\* a password: no field written to the log by a handler carries a secret or
\* a candidate string of a request or a code computed from a secret.
C29_NoCredentialsInLogs ==
    \A entry \in logged : ~entry.token.isString /\ entry.secret = NoSecret

\* ------------------------------------------------------------- startup
\* The process starts with each USER_CREDENTIALS it may be given; once it
\* serves, one browser logs in and sets up or verifies the second factor.
CredentialEnvs ==
    { EnvUnset, EnvString(<< >>), EnvString(C_admin), EnvString(C_admin \o <<":">>),
      EnvString(<<":">> \o C_hash), EnvString(C_admin \o <<":", ":">> \o C_hash),
      EnvString(C_admin \o <<":">> \o C_hash) }

StartupRequests ==
    Requests({ S_auth \o S_login, S_auth \o S_mfaSetup, S_auth \o S_mfaVerify })

StartupTokens ==
    { TokenString(totp(k, now)) : k \in {1, 3} } \cup { TokenUndefined }

StartupRequest ==
    \E s \in Client, req \in StartupRequests :
        \/ \E username \in BodyUsernames, password \in Passwords :
              PostLogin(s, req, username, password)
        \/ GetMfaSetup(s, req)
        \/ PostMfaSetup(s, req, StartupTokens, {TRUE})
        \/ PostMfaVerify(s, req, StartupTokens)

InitStartup ==
    /\ sess = [s \in Sessions |-> FreshSession]
    /\ pendingSetups = << >>
    /\ \E file \in InitialFiles :
          /\ secretsFile = file
          /\ userSecrets = loadUserSecrets(file, NoSecrets)
    /\ mfaSecretsEnv = NoSecrets
    /\ timers = {}
    /\ nextId = 1
    /\ now = TotpWindow
    /\ inflight = [i \in 1..MaxInflight |-> NoRequest]
    /\ last = NoResponse
    /\ logged = {}
    /\ \E credentials \in CredentialEnvs :
          server = [status |-> "starting", userCredentials |-> credentials]
    /\ nodeEnv = "dev"
    /\ mfaPassed = {}
    /\ publicPathsEnv = PathsUnset
    /\ publicPaths = getPublicPaths(PathsUnset)

NextStartup ==
    \/ StartServer
    \/ server.status = "serving" /\ StartupRequest
    \/ server.status = "serving" /\ Resume

SpecStartup == InitStartup /\ [][NextStartup]_vars

\* USER_CREDENTIALS names a user and a password hash: it is set and has a
\* non-empty part before its first colon and a non-empty part after it.
HasUserAndHash(credentials) ==
    /\ credentials.set
    /\ \E i \in 2..(Len(credentials.chars) - 1) :
          /\ credentials.chars[i] = ":"
          /\ \A k \in 1..(i - 1) : credentials.chars[k] # ":"
          /\ credentials.chars[i + 1] # ":"

RequestHandled == last.op # "none" \/ \E i \in DOMAIN inflight : inflight[i].op # "none"

\* C30: a missing credential configuration is fatal at startup and never per
\* request: with USER_CREDENTIALS unset or without the username or the hash
\* part the process exits at its start and handles no request, and once the
\* server serves, no login, setup or verify request ends the process.
C30_FatalAtStartupOnly ==
    [][/\ (server.status = "starting" /\ ~HasUserAndHash(server.userCredentials))
          => (server'.status = "exited" /\ ~RequestHandled')
       /\ (server.status = "starting" /\ HasUserAndHash(server.userCredentials))
          => server'.status = "serving"
       /\ ~HasUserAndHash(server'.userCredentials) => ~RequestHandled'
       /\ server.status = "serving" => server'.status = "serving"]_vars

\* The server serves, and a POST /auth/mfa-verify without a token was answered
\* with the error page: the process still serves.
C30_Witness ==
    /\ server.status = "serving"
    /\ last.op = "postMfaVerify"
    /\ last.outcome = "500"

\* ------------------------------------------------ the path configuration
\* The server starts with each PUBLIC_PATHS it may be given; one browser logs
\* in, sets up its second factor and sends requests to upstream paths.
ConfigPathsEnv ==
    { PathsUnset, PathsArray(<< <<"/", "p", "u", "b">> >>), PathsText("empty"),
      PathsText("unparseable"), PathsText("object"), PathsText("string"),
      PathsText("number"), PathsText("null") }

ConfigRequests ==
    Requests({ S_auth \o S_login, S_auth \o S_mfaSetup, S_health,
               P_root, P_private, P_public, P_publicX, P_pubX, P_authz })

ConfigTokens == { TokenString(totp(3, now)) }

ConfigRequest ==
    \E s \in Client, req \in ConfigRequests :
        \/ PostLogin(s, req, validUsername, "correct")
        \/ GetMfaSetup(s, req)
        \/ PostMfaSetup(s, req, ConfigTokens, {TRUE})
        \/ LocalStatus(s, req)
        \/ \E accept \in AcceptValues, upgrade \in UpgradeValues :
              Admission(s, req, accept, upgrade)

InitConfig == InitWith({NoSecrets}, {NoSecrets}, {"dev"}, ConfigPathsEnv)

NextConfig ==
    \/ Idle /\ ConfigRequest
    \/ Resume

SpecConfig == InitConfig /\ [][NextConfig]_vars

\* PUBLIC_PATHS is set and is no JSON list.
Malformed(envPaths) == envPaths.set /\ envPaths.kind # "array"

\* C31: a malformed public-path configuration falls back to the default set:
\* with PUBLIC_PATHS set to a text that is no JSON list (unparseable, or
\* parsing to a value that is no list) the gates answer every request as they
\* do with defaultPublicPaths, and no request ends in an error.
C31_MalformedFallsBack ==
    (Malformed(publicPathsEnv) /\ last.op = "admission")
    => LET a == admission(last.authenticated, last.path, last.accept, last.upgrade,
                          PathList(defaultPublicPaths)) IN
       /\ last.outcome # "500"
       /\ last.by = a.by
       /\ last.outcome = a.outcome
       /\ last.relayed = a.relayed

\* ------------------------------------------------------ forwarding failures
\* One browser logs in, sets up its second factor and sends requests to
\* upstream paths; the forwarding of a request may fail with each error code.
InitForward == InitWith({NoSecrets}, {NoSecrets}, {"dev"}, {PathsUnset})

NextForward ==
    \/ Idle /\ ConfigRequest
    \/ Resume
    \/ \E code \in ErrorCodes, headersSent \in BOOLEAN : ProxyError(code, headersSent)

SpecForward == InitForward /\ [][NextForward]_vars

\* The status the claim gives to a failure category.
GatewayStatus(code) ==
    IF code = "ECONNREFUSED" THEN "503"
    ELSE IF code = "ETIMEDOUT" THEN "504"
    ELSE "502"

SuccessStatuses == {"200", "201", "204", "forward", "json"}

\* C32: upstream forwarding failures are mapped to gateway status codes by
\* category: the error handler answers connection refused with 503, connection
\* reset with 502, timeout with 504 and every other failure with 502, for
\* browsers and for JSON clients, and it never answers a forwarding failure
\* with a success status.
C32_ForwardingFailureStatus ==
    /\ \A code \in ErrorCodes :
          /\ onError(code, TRUE, FALSE) = GatewayStatus(code)
          /\ \A hasRes \in BOOLEAN, headersSent \in BOOLEAN :
                onError(code, hasRes, headersSent) \notin SuccessStatuses
    /\ (last.op = "proxyError" /\ last.by = "onError")
       => (last.outcome = GatewayStatus(last.code) /\ last.outcome \notin SuccessStatuses)

\* The forwarding of a request of the authenticated browser timed out and the
\* handler answered 504.
C32_Witness ==
    /\ last.op = "proxyError"
    /\ last.by = "onError"
    /\ last.code = "ETIMEDOUT"
    /\ last.outcome = "504"
    /\ last.authenticated
    /\ last.path = P_private

\* ------------------------------------------------- the order of complete
BadCodeFormat == "Token must be 6 digits"
InvalidCode == "Invalid token"

\* The result of complete(setupId, token) in the current state.
CompleteResult(setupId, token) ==
    completeMFASetup(pendingSetups, userSecrets, setupId, token, now).result

\* C33: complete checks its failure causes in a fixed order: for a setup id
\* that is absent or expired the result is the not-found error whatever the
\* code, a malformed or missing one included; for a live setup id a code that
\* does not normalize to six digits gives the bad-format error; and for a live
\* setup id and a well-formed code that is no code of the candidate secret the
\* result is the invalid-code error.
C33_FailureOrder ==
    \A setupId \in SetupIds, token \in SubmittedCodes(now) :
        /\ (setupId \notin DOMAIN pendingSetups \/ OlderThanTtl(setupId))
           => CompleteResult(setupId, token) = NotFound
        /\ (setupId \in DOMAIN pendingSetups /\ ~OlderThanTtl(setupId)
              /\ ~NormalizesToSixDigits(token))
           => CompleteResult(setupId, token) = BadCodeFormat
        /\ (setupId \in DOMAIN pendingSetups /\ ~OlderThanTtl(setupId)
              /\ NormalizesToSixDigits(token)
              /\ ~CodeMatches(pendingSetups[setupId].secret, token, now))
           => CompleteResult(setupId, token) = InvalidCode

\* ------------------------------------------------- the setup page
\* A GET /auth/mfa-setup of session s is taken up in this step (the handler
\* runs up to its await), in slot i.
BeginsGetMfaSetup(s, i) ==
    /\ inflight[i].op = "none"
    /\ inflight'[i].op = "getMfaSetup"
    /\ inflight'[i].s = s

\* The setup that session s refers to is in the registry.
HasLiveSetup(s) ==
    /\ sess[s].mfaSetupId # NoSetupId
    /\ sess[s].mfaSetupId \in DOMAIN pendingSetups

\* C34: reuse of a live setup: a GET /auth/mfa-setup from a password-verified
\* session whose mfaSetupId refers to a setup of the registry leaves the
\* registry as it is (same ids, secrets and creation times, no new record, no
\* new expiry timer) and leaves the session as it is, when the handler starts
\* and when it ends; so repeating the GET changes nothing either.
C34_LiveSetupReused ==
    [][/\ \A s \in Sessions, i \in DOMAIN inflight :
             (BeginsGetMfaSetup(s, i) /\ sess[s].passwordVerified /\ HasLiveSetup(s))
             => (/\ pendingSetups' = pendingSetups
                 /\ timers' = timers
                 /\ nextId' = nextId
                 /\ sess' = sess
                 /\ inflight'[i].setupId = sess[s].mfaSetupId
                 /\ inflight'[i].snap = sess[s])
       /\ \A i \in DOMAIN inflight :
             (/\ inflight[i].op = "getMfaSetup"
              /\ inflight'[i].op = "none"
              /\ inflight[i].snap = inflight[i].orig)
             => (/\ pendingSetups' = pendingSetups
                 /\ timers' = timers
                 /\ nextId' = nextId
                 /\ sess' = sess)]_vars

\* The page of setup 1 was sent, and a further GET of the session, which still
\* refers to the live setup 1, is under way with that setup: nothing was added.
C34_Witness ==
    /\ last.op = "getMfaSetup" /\ last.outcome = "200"
    /\ \E i \in DOMAIN inflight :
          /\ inflight[i].op = "getMfaSetup"
          /\ inflight[i].setupId = 1
          /\ inflight[i].orig.mfaSetupId = 1
    /\ DOMAIN pendingSetups = {1}
    /\ nextId = 2
    /\ Cardinality(timers) = 1

\* ------------------------------------------------- recovery of a setup
\* The response of this step answers a POST /auth/mfa-setup of session s.
AnswersPostMfaSetup(s) == AnsweredAtOnce /\ last'.op = "postMfaSetup" /\ last'.s = s

\* Session s is password-verified and the setup it refers to has expired (it is
\* older than 30 minutes) or is no longer in the registry.
SetupExpiredOrSuperseded(s) ==
    /\ sess[s].passwordVerified
    /\ sess[s].mfaSetupId # NoSetupId
    /\ (sess[s].mfaSetupId \notin DOMAIN pendingSetups \/ OlderThanTtl(sess[s].mfaSetupId))

\* C35: setup expiry is recoverable from the flow's entry point: when the setup
\* that a password-verified session refers to has expired or been superseded,
\* POST /auth/mfa-setup fails and changes neither the session nor the store;
\* the next GET /auth/mfa-setup of the session creates a fresh setup and binds
\* session.mfaSetupId to it when it ends; and a POST /auth/mfa-setup with the
\* current code of the secret of the session's live setup authenticates it.
C35_ExpiryRecoverable ==
    [][/\ \A s \in Sessions :
             (AnswersPostMfaSetup(s) /\ SetupExpiredOrSuperseded(s))
             => (/\ sess' = sess
                 /\ userSecrets' = userSecrets
                 /\ last'.outcome = "redirect:/auth/mfa-setup?error=1")
       /\ \A s \in Sessions, i \in DOMAIN inflight :
             (BeginsGetMfaSetup(s, i) /\ SetupExpiredOrSuperseded(s))
             => (/\ nextId' = nextId + 1
                 /\ nextId \in DOMAIN pendingSetups'
                 /\ pendingSetups'[nextId].username = sess[s].username
                 /\ pendingSetups'[nextId].timestamp = now
                 /\ inflight'[i].snap.mfaSetupId = nextId)
       /\ \A i \in DOMAIN inflight :
             (/\ inflight[i].op = "getMfaSetup"
              /\ inflight'[i].op = "none"
              /\ inflight[i].snap # inflight[i].orig)
             => sess'[inflight[i].s].mfaSetupId = inflight[i].setupId
       /\ \A s \in Sessions :
             (/\ AnswersPostMfaSetup(s)
              /\ sess[s].passwordVerified
              /\ HasLiveSetup(s)
              /\ ~OlderThanTtl(sess[s].mfaSetupId)
              /\ last'.token = TokenString(totp(pendingSetups[sess[s].mfaSetupId].secret, now)))
             => (sess'[s].authenticated /\ last'.outcome = "redirect:/")]_vars

\* ------------------------------------------------- verification is reusable
\* Two browsers of the user, who has a stored secret: each logs in and submits
\* codes to /auth/mfa-verify while the clock advances; a GET /auth/mfa-setup
\* puts a setup into the registry.  The codes are fixed strings: the code of
\* the stored secret for the step the run starts at, its code for a step
\* outside every window of the run, and a code of another secret.
VerifyRequests ==
    Requests({ S_auth \o S_login, S_auth \o S_mfaSetup, S_auth \o S_mfaVerify })

TheCode == TokenString(totp(1, TotpWindow))

VerifyTokens ==
    { TheCode, TokenString(totp(1, 3 * TotpWindow + MaxTicks + 1)),
      TokenString(totp(3, TotpWindow)) }

VerifyRequest ==
    \E s \in Sessions, req \in VerifyRequests :
        \/ PostLogin(s, req, validUsername, "correct")
        \/ GetMfaSetup(s, req)
        \/ PostMfaVerify(s, req, VerifyTokens)

InitVerify == InitWith({[NoSecrets EXCEPT !["admin"] = 1]}, {NoSecrets}, {"dev"}, {PathsUnset})

NextVerify ==
    \/ VerifyRequest
    \/ Resume
    \/ Tick

SpecVerify == InitVerify /\ [][NextVerify]_vars

\* The response of this step answers a POST /auth/mfa-verify of session s.
AnswersPostMfaVerify(s) == AnsweredAtOnce /\ last'.op = "postMfaVerify" /\ last'.s = s

\* The token is a valid code of the stored secret of the session's user.
ValidCodeOf(s, token) == CodeMatches(getSecret(userSecrets, sess[s].username), token, now)

\* C36 (as stated): verification is idempotent and not single-use, so of two
\* POST /auth/mfa-verify that submit the same valid code within its window,
\* from the same or from different sessions in any order, both succeed: the
\* request of a session that follows on the success of that session with a
\* code still valid succeeds too (whatever it carries, that code included: the
\* handler answers before it reads the code).
C36_BothSucceed ==
    [][\A s \in Sessions :
          (/\ last.op = "postMfaVerify" /\ last.s = s
           /\ last.outcome = "redirect:/"
           /\ ValidCodeOf(s, last.token)
           /\ AnswersPostMfaVerify(s))
          => last'.outcome = "redirect:/"]_vars

\* C36 (amended): verifyToken changes neither the secret store (in memory and
\* on disk) nor the registry nor its timers, whatever the code; every POST
\* /auth/mfa-verify of a session that is password-verified when the request is
\* handled succeeds with a valid code of the stored secret, however often and
\* by whichever session that code was accepted before; a session that is not
\* password-verified (one whose verification has just succeeded included) is
\* redirected to the login and stays as it is.
C36_ReusableWhilePasswordVerified ==
    [][\A s \in Sessions :
          AnswersPostMfaVerify(s)
          => (/\ userSecrets' = userSecrets
              /\ secretsFile' = secretsFile
              /\ pendingSetups' = pendingSetups
              /\ timers' = timers
              /\ (sess[s].passwordVerified /\ ValidCodeOf(s, last'.token))
                    => (last'.outcome = "redirect:/" /\ sess'[s].authenticated)
              /\ ~sess[s].passwordVerified
                    => (last'.outcome = "redirect:/auth/login" /\ sess' = sess))]_vars

\* Both browsers were admitted with the one valid code of the run, the second
\* a step after the code's own step, while a setup was in the registry.
C36_Witness ==
    /\ last.op = "postMfaVerify" /\ last.s = "s2"
    /\ last.token = TheCode
    /\ last.outcome = "redirect:/"
    /\ sess["s1"].authenticated /\ sess["s2"].authenticated
    /\ mfaPassed = {"s1", "s2"}
    /\ now = TotpWindow + 1
    /\ pendingSetups # << >>

\* ------------------------------------------------- removal of a setup
\* The registry specification, with cleanup requests that name another user.
RemovalRequest ==
    \/ RegistryRequest
    \/ \E s \in Sessions, req \in RegistryRequests : PostMfaCleanup(s, req, "bob")

NextRemoval ==
    \/ RemovalRequest
    \/ Resume
    \/ Tick
    \/ Jump
    \/ \E timer \in timers : TimerFire(timer)

SpecRemoval == InitRegistry /\ [][NextRemoval]_vars

\* The setups that the step removes from the registry.
Removed == (DOMAIN pendingSetups) \ (DOMAIN pendingSetups')

\* The step removes id as the timer of that setup does: the timer made with
\* the setup runs, 30 minutes or more after the creation, and removes nothing else.
RemovedByOwnTimer(id) ==
    /\ \E timer \in timers \ timers' :
          /\ timer.setupId = id
          /\ timer.due = pendingSetups[id].timestamp + TtlSteps
          /\ timer.due <= now
    /\ Removed = {id}
    /\ last' = last

\* The step removes id by a begin for the username of the setup.
RemovedByBegin(id) ==
    /\ nextId' = nextId + 1
    /\ nextId \in DOMAIN pendingSetups'
    /\ pendingSetups'[nextId].username = pendingSetups[id].username
    /\ \A other \in Removed : pendingSetups[other].username = pendingSetups[id].username

\* The step removes id by a cleanup for the username of the setup (the
\* cleanups of the run name the user of their session or, from a session
\* without a user, another user).
RemovedByCleanup(id) ==
    /\ timers' = timers /\ inflight' = inflight /\ nextId' = nextId
    /\ last'.op = "postMfaCleanup"
    /\ last'.outcome = "json"
    /\ sess[last'.s].username = pendingSetups[id].username
    /\ \A other \in Removed : pendingSetups[other].username = pendingSetups[id].username

\* The step removes id by its successful completion.
RemovedByCompletion(id) ==
    /\ timers' = timers /\ inflight' = inflight /\ nextId' = nextId
    /\ last'.op = "postMfaSetup"
    /\ last'.outcome = "redirect:/"
    /\ sess[last'.s].mfaSetupId = id
    /\ Removed = {id}

\* The registry with one more setup, of user v.
WithSetupOf(setups, v) ==
    [id \in (DOMAIN setups) \cup {MaxSetups + 1} |->
        IF id = MaxSetups + 1
        THEN [username |-> v, secret |-> 2 + id, timestamp |-> now]
        ELSE setups[id]]

\* C37: a pending setup leaves the registry only by its own expiry timer, 30
\* minutes or more after its creation, by a begin or a cleanup for its
\* username, or by its own successful completion; the timer of an earlier
\* setup removes no later setup; and begin, cleanup and complete for one
\* username leave the setups of every other username in the registry.
C37_RemovalCauses ==
    [][/\ \A id \in Removed :
             \/ RemovedByOwnTimer(id)
             \/ RemovedByBegin(id)
             \/ RemovedByCleanup(id)
             \/ RemovedByCompletion(id)
       /\ \A timer \in timers \ timers' : Removed \subseteq {timer.setupId}
       /\ \A u \in Users : \A v \in Users \ {u} :
             LET registry == WithSetupOf(pendingSetups, v)
                 others == {id \in DOMAIN registry : registry[id].username # u}
             IN
             /\ others \subseteq DOMAIN cleanupUserSetups(registry, u)
             /\ others \subseteq DOMAIN generateSecret(registry, u, MaxSetups + 2,
                                                       MaxSetups + 4, now)
             /\ \A id \in (DOMAIN registry) \ others :
                   others \subseteq
                      DOMAIN completeMFASetup(registry, userSecrets, id,
                                TokenString(totp(registry[id].secret, now)), now).pendingSetups]_vars

\* A cleanup that named another user was answered with success by a browser
\* that never logged in, and the setup of the user with its timer is still there.
C37_Witness ==
    /\ last.op = "postMfaCleanup" /\ last.outcome = "json"
    /\ sess[last.s].username = None
    /\ DOMAIN pendingSetups = {1}
    /\ pendingSetups[1].username = validUsername
    /\ \E timer \in timers : timer.setupId = 1

\* ------------------------------------------------------------- production
\* NODE_ENV is 'production'.  The browser of the user logs in and sets up or
\* verifies its second factor; a second browser, which never presents the
\* password, sends every request of the auth router, its logins with a wrong
\* username or a wrong or missing password.
User == "s1"
Stranger == "s2"

StrangerTokens == { TokenString(totp(k, now)) : k \in {1, 3} } \cup { TokenUndefined }

UserRequest ==
    \E req \in AuthSpecRequests :
        \/ PostLogin(User, req, validUsername, "correct")
        \/ GetMfaSetup(User, req)
        \/ PostMfaSetup(User, req, StrangerTokens, {TRUE})
        \/ PostMfaVerify(User, req, StrangerTokens)

StrangerRequest ==
    \E req \in AuthSpecRequests :
        \/ GetLogin(Stranger, req)
        \/ \E username \in BodyUsernames, password \in Passwords :
              /\ (username # validUsername \/ password # "correct")
              /\ PostLogin(Stranger, req, username, password)
        \/ GetMfaSetup(Stranger, req)
        \/ PostMfaSetup(Stranger, req, StrangerTokens, {TRUE})
        \/ GetMfaVerify(Stranger, req)
        \/ PostMfaVerify(Stranger, req, StrangerTokens)
        \/ GetMfaDebug(Stranger, req)
        \/ \E bodyUsername \in BodyUsernames : PostMfaCleanup(Stranger, req, bodyUsername)
        \/ \E bodyUsername \in BodyUsernames : PostMfaReset(Stranger, req, bodyUsername, {TRUE})
        \/ PostLogout(Stranger, req)

InitProduction == InitWith(InitialFiles, {NoSecrets}, {"production"}, {PathsUnset})

NextProduction ==
    \/ UserRequest
    \/ StrangerRequest
    \/ Resume

SpecProduction == InitProduction /\ [][NextProduction]_vars

\* The step changes the secret store (in memory or on disk) or the registry
\* (its setups, timers or ids).
StoreOrRegistryChanges ==
    \/ userSecrets' # userSecrets
    \/ secretsFile' # secretsFile
    \/ pendingSetups' # pendingSetups
    \/ timers' # timers
    \/ nextId' # nextId

\* C38: with NODE_ENV 'production' a session that never passed the password
\* check cannot change the secret store or the registry by any sequence of
\* requests: every step that changes them is a POST or a GET /auth/mfa-setup
\* of the other session; the setup and verify endpoints redirect the session
\* to the login, the debug, cleanup and reset endpoints answer 404, and the
\* session stays as it was.
C38_ProductionStrangerChangesNothing ==
    [][nodeEnv = "production"
       => /\ StoreOrRegistryChanges
             => \/ (last'.s = User /\ last'.op = "postMfaSetup" /\ inflight' = inflight)
                \/ \E i \in DOMAIN inflight : BeginsGetMfaSetup(User, i)
          /\ sess'[Stranger] = FreshSession
          /\ (AnsweredAtOnce /\ last'.s = Stranger)
             => (/\ last'.op \in MfaHandlers => last'.outcome = "redirect:/auth/login"
                 /\ last'.op \in {"getMfaDebug", "postMfaCleanup", "postMfaReset"}
                       => last'.outcome = "404"
                 /\ ~StoreOrRegistryChanges
                 /\ sess' = sess)]_vars

\* The stranger's reset was answered 404 while the user has a secret and a
\* setup is in the registry.
C38_Witness ==
    /\ nodeEnv = "production"
    /\ last.op = "postMfaReset" /\ last.s = Stranger /\ last.outcome = "404"
    /\ getSecret(userSecrets, validUsername) # NoSecret
    /\ pendingSetups # << >>

\* ------------------------------------------------------------ local paths
\* C39: a request whose path starts with /auth/ or equals /health or
\* /proxy-status is never relayed to the upstream target, whatever its method
\* and the state of its session, as an HTTP request and as a WebSocket
\* upgrade.
C39_LocalPathNeverRelayed ==
    (last.op # "none" /\ LocalPath(last.path))
    => (~last.relayed /\ last.outcome \notin {"forward", "relay"})

\* An authenticated session sent a WebSocket upgrade to a path under /auth/
\* and proxyMiddleware ignored it.
C39_Witness ==
    /\ last.op = "upgrade"
    /\ StartsWith(last.path, S_authSlash)
    /\ last.authenticated
    /\ last.outcome = "ignored"

\* ------------------------------------------------------------ the setup page
\* The step sends the setup page of session s: its GET /auth/mfa-setup, which
\* was suspended at the generation of the QR image, answers 200.
SendsSetupPage(s) ==
    /\ \E i \in DOMAIN inflight :
          /\ inflight[i].op = "getMfaSetup"
          /\ inflight[i].s = s
          /\ inflight'[i].op = "none"
    /\ last'.op = "getMfaSetup"
    /\ last'.outcome = "200"

\* C40: every setup page of GET /auth/mfa-setup shows as its manual-entry
\* secret the secret encoded in the provisioning URI of the same page, and
\* that secret is the secret of the pending setup the session is bound to,
\* also when other sessions of the user begin, clean up or complete a setup
\* while the handler is suspended at the generation of the QR image.
C40_PageSecretsAgree ==
    [][\A s \in Sessions :
          SendsSetupPage(s)
          => /\ last'.manualSecret = last'.qrSecret
             /\ sess'[s].mfaSetupId \in DOMAIN pendingSetups'
             /\ pendingSetups'[sess'[s].mfaSetupId].secret = last'.qrSecret]_vars

====
